---- MODULE Spec2Model ----
(***************************************************************************)
(* trafikverket-helper: the session (cookie) manager, the polling client   *)
(* and the monitor loop with its SQLite store, as state machines.          *)
(*                                                                         *)
(*   Spec            SessionManager's public operations called by caller   *)
(*                   threads, with the clock                               *)
(*   SpecCallers     several threads calling one SessionManager            *)
(*   SpecBackground  the foreground poller and the background refresh      *)
(*                   thread(s) on one SessionManager                       *)
(*   SpecFetch       TrafikverketAPI.get_available_dates                   *)
(*   SpecMonitor     modes/monitor_rides.run with helpers/database         *)
(*   SpecSync        the client's cookie jar and the background thread     *)
(*   SpecDue         should_refresh_cookies at any instant                 *)
(*                                                                         *)
(* Time is in minutes and advances TickMinutes at a time.  A network call  *)
(* is two steps, the send and the arrival of the response, so that other   *)
(* threads interleave with it.                                             *)
(***************************************************************************)
EXTENDS Integers, Sequences, FiniteSets, TLC

\* ------------------------------------------------------------- bounds
MaxTicks == 2
TickMinutes == 3
NCallers == 2
MaxWorkers == 2

\* ---------------------------------------------------- program constants
refresh_interval == 5
ExpiryWarning == 15

\* the last instant of the clock
MaxTime == MaxTicks * TickMinutes

None == -1
Absent == "<absent>"

\* ------------------------------------------------------------ cookies
CookieNames == {"LoginValid", "FpsExternalIdentity"}

\* datetime.strptime(login_valid, '%Y-%m-%d %H:%M') on the values the model
\* uses: the minute of the day 2025-06-20 the string denotes; a string
\* outside the domain raises ValueError.
Strptime == ("2025-06-20 00:18" :> 18) @@ ("2025-06-20 00:40" :> 40)

LoginValidValues == {"2025-06-20 00:18", "2025-06-20 00:40", "tomorrow"}
IdentityValues == {"id1", "id2"}

CookieValues(n) == IF n = "LoginValid" THEN LoginValidValues ELSE IdentityValues

CookieDicts == { d \in [CookieNames -> LoginValidValues \cup IdentityValues \cup {Absent}] :
                   \A n \in CookieNames : d[n] = Absent \/ d[n] \in CookieValues(n) }

EmptyDict == [n \in CookieNames |-> Absent]

\* dict.update(new): every pair of new is written, the other names are kept.
\* the cookies replaced by the new ones instead of merged
DictReplace(old, new) == new

DictUpdate(old, new) == [n \in CookieNames |-> IF new[n] # Absent THEN new[n] ELSE old[n]]

VARIABLES
    now,                  \* datetime.now()
    current_cookies,      \* SessionManager.current_cookies
    last_refresh_time,    \* SessionManager.last_refresh_time
    config,               \* the cookies mapping of config.json
    background_running,   \* SessionManager.background_running
    background_thread,    \* SessionManager.background_thread (a worker id or None)
    background_interval,  \* SessionManager.background_interval
    cpc,                  \* per caller thread: where it is
    result,               \* the operation that returned last, and its value
    wpc,                  \* per background worker: where it is
    \* TrafikverketAPI
    fpc,                  \* where get_available_dates is
    jar,                  \* TrafikverketAPI.session.cookies
    default_params,       \* TrafikverketAPI.default_params['occasionBundleQuery']
    extended,             \* the extended_information argument of the call
    r,                    \* the response r of get_available_dates
    renewal_log,          \* the outcomes of the call's renewal round-trips, in order
    requests,             \* the availability requests the call has sent
    outcome,              \* what the last call returned or raised
    \* modes/monitor_rides.run and helpers/database
    mpc,                  \* where run is
    loc,                  \* index of location_id in the location list
    attempt,              \* the _ of "for _ in range(MAX_ATTEMPTS)"
    available_rides_list,
    last_available_rides,
    new_rides,
    removed_rides,
    raised,               \* the exception that ended run, or "none"
    table,                \* the rows of table rides, in rowid order
    journal,              \* the open transaction: the rows before it, or NoJournal
    ins,                  \* store_rides: index of the next ride to insert
    previous_rides_list,  \* history: available_rides_list of the cycle before
    \* a caller of the manager
    held,                 \* the mapping a caller was handed: the operation, whether
                          \* it is a dict of its own ("copy") or the manager's dict
                          \* ("manager"), and the pairs of the copy
    \* the helpers called directly
    last_call             \* the call of a helper (database, cookie extraction)
                          \* made last: its name, arguments and value

smVars == <<now, current_cookies, last_refresh_time, config>>
bgVars == <<background_running, background_thread, background_interval, wpc>>
thVars == <<cpc, result>>
apiVars == <<fpc, jar, default_params, extended, r, renewal_log, requests, outcome>>
monVars == <<mpc, loc, attempt, available_rides_list, last_available_rides,
             new_rides, removed_rides, raised, table, journal, ins,
             previous_rides_list>>
clientVars == <<apiVars, monVars, held, last_call>>
vars == <<smVars, bgVars, thVars, apiVars, monVars, held, last_call>>

Callers == 1..NCallers
Workers == 1..MaxWorkers

\* ----------------------------------------------- SessionManager: reads

\* get_earliest_cookie_expiration
get_earliest_cookie_expiration(cookies) ==
    LET login_valid == cookies["LoginValid"] IN
    IF login_valid # Absent /\ login_valid \in DOMAIN Strptime
    THEN Strptime[login_valid]
    ELSE None

\* a manager that has never renewed taken as one whose interval has passed
ShouldRefreshNeverIsElapsed(t, last, cookies) ==
    \/ (last = None \/ t - last > refresh_interval)
    \/ LET earliest_expiration == get_earliest_cookie_expiration(cookies) IN
       earliest_expiration # None /\ earliest_expiration - t < ExpiryWarning

\* the two comparisons taken inclusive
ShouldRefreshInclusive(t, last, cookies) ==
    \/ (last # None /\ t - last >= refresh_interval)
    \/ LET earliest_expiration == get_earliest_cookie_expiration(cookies) IN
       earliest_expiration # None /\ earliest_expiration - t <= ExpiryWarning

\* should_refresh_cookies, as a function of the clock and the manager's state
ShouldRefresh(t, last, cookies) ==
    \/ (last # None /\ t - last > refresh_interval)
    \/ LET earliest_expiration == get_earliest_cookie_expiration(cookies) IN
       earliest_expiration # None /\ earliest_expiration - t < ExpiryWarning

should_refresh_cookies == ShouldRefresh(now, last_refresh_time, current_cookies)

\* ------------------------------------- the renewal endpoint's responses
Cookie(n, v) == [name |-> n, value |-> v]

\* The cookies a response of the renewal endpoint sets, in header order.
SetCookieLists ==
    {<<>>,
     <<Cookie("LoginValid", "2025-06-20 00:40")>>,
     <<Cookie("LoginValid", "2025-06-20 00:18")>>,
     <<Cookie("FpsExternalIdentity", "id2")>>,
     <<Cookie("LoginValid", "2025-06-20 00:40"), Cookie("FpsExternalIdentity", "id2")>>}

RenewResponses ==
    {[kind |-> "exception", status_code |-> 0, set_cookie |-> <<>>],
     [kind |-> "response", status_code |-> 500, set_cookie |-> <<>>]}
    \cup {[kind |-> "response", status_code |-> 200, set_cookie |-> l] : l \in SetCookieLists}

\* The loop over response.headers.items() of refresh_cookies_proactively.
\* response.headers is a case-insensitive mapping, so it holds one Set-Cookie
\* item whose value joins all the Set-Cookie lines; value.split(';')[0] is
\* the name=value of the first of them.
ParseSetCookie(l) ==
    IF l = <<>> THEN EmptyDict
    ELSE [n \in CookieNames |-> IF n = l[1].name THEN l[1].value ELSE Absent]

\* new_cookies of refresh_cookies_proactively
NewCookies(resp) ==
    IF resp.kind = "response" /\ resp.status_code = 200
    THEN ParseSetCookie(resp.set_cookie)
    ELSE EmptyDict

\* the value refresh_cookies_proactively returns for a response
RefreshSucceeds(resp) ==
    /\ resp.kind = "response"
    /\ resp.status_code = 200
    /\ NewCookies(resp) # EmptyDict

\* io.load_config and io.update_config as the save of a renewal uses them:
\* the cookies of config.json afterwards. The document gets the cookies, or
\* one of the two calls raises (saved is FALSE) and it is left as it was.
update_config(document, cookies, saved) == IF saved THEN cookies ELSE document

\* the timestamp written before the outcome is known
ApplyRenewalStampsAlways(resp, saved) ==
    /\ last_refresh_time' = now
    /\ IF RefreshSucceeds(resp)
       THEN /\ current_cookies' = DictUpdate(current_cookies, NewCookies(resp))
            /\ config' = update_config(config, current_cookies', saved)
       ELSE /\ UNCHANGED <<current_cookies, config>>
            /\ saved

\* the timestamp not written
ApplyRenewalNoStamp(resp, saved) ==
    IF RefreshSucceeds(resp)
    THEN /\ current_cookies' = DictUpdate(current_cookies, NewCookies(resp))
         /\ UNCHANGED last_refresh_time
         /\ config' = update_config(config, current_cookies', saved)
    ELSE /\ UNCHANGED <<current_cookies, last_refresh_time, config>>
         /\ saved

\* the cookies merged only once they are saved
ApplyRenewalAfterSave(resp, saved) ==
    IF RefreshSucceeds(resp) /\ saved
    THEN /\ current_cookies' = DictUpdate(current_cookies, NewCookies(resp))
         /\ last_refresh_time' = now
         /\ config' = update_config(config, current_cookies', saved)
    ELSE UNCHANGED <<current_cookies, last_refresh_time, config>>

\* refresh_cookies_proactively from the arrival of the response on: the merge,
\* the timestamp and the save to config.json (saved says whether
\* io.update_config went through; its failure is caught and printed).
ApplyRenewal(resp, saved) ==
    IF RefreshSucceeds(resp)
    THEN /\ current_cookies' = DictUpdate(current_cookies, NewCookies(resp))
         /\ last_refresh_time' = now
         /\ config' = update_config(config, current_cookies', saved)
    ELSE /\ UNCHANGED <<current_cookies, last_refresh_time, config>>
         /\ saved

\* ------------------------------------------------- response bodies
\* A body is the word sequence of its text; the patterns of
\* is_session_expired are searched in it word by word.
Occasions ==
    {[date |-> "2025-03-01", time |-> "09:00", locationName |-> "Stockholm",
      cost |-> "500kr", name |-> "X"],
     [date |-> "2025-03-02", time |-> "09:00", locationName |-> "Stockholm",
      cost |-> "325kr", name |-> "X"]}

CostWords == ("500kr" :> <<"500", "kr">>) @@ ("325kr" :> <<"325", "kr">>)

OccasionWords(o) ==
    <<"date", o.date, "time", o.time, "locationName", o.locationName, "cost">>
    \o CostWords[o.cost] \o <<"name", o.name>>

RECURSIVE OccasionsWords(_)
OccasionsWords(os) ==
    IF os = <<>> THEN <<>> ELSE OccasionWords(Head(os)) \o OccasionsWords(Tail(os))

RECURSIVE BundlesWords(_)
BundlesWords(bs) ==
    IF bs = <<>> THEN <<>>
    ELSE <<"occasions">> \o OccasionsWords(Head(bs).occasions) \o BundlesWords(Tail(bs))

JsonPayload(st, ty, bs) == [json |-> TRUE, status |-> st, type |-> ty, bundles |-> bs, words |-> <<>>]
HtmlPayload(ws) == [json |-> FALSE, status |-> 0, type |-> "", bundles |-> <<>>, words |-> ws]

\* r.text
Text(p) ==
    IF p.json
    THEN <<"status", ToString(p.status)>>
         \o (IF p.type # "" THEN <<"data", "null", "type", p.type>>
                             ELSE <<"data", "bundles">> \o BundlesWords(p.bundles))
    ELSE p.words

\* the search made case-sensitive
LowerNot(w) == w

\* re.IGNORECASE: the lower-case form of the words that have capitals
Lower(w) ==
    CASE w = "NullReferenceException" -> "nullreferenceexception"
      [] w = "Unauthorized" -> "unauthorized"
      [] w = "Login" -> "login"
      [] OTHER -> w

\* expired_patterns of is_session_expired: <<a>> is the pattern a, <<a, b>> is a.*b
expired_patterns ==
    << <<"session", "expired">>, <<"login", "required">>, <<"unauthorized">>,
       <<"401">>, <<"403">>, <<"nullreferenceexception">>, <<"status", "500">> >>

\* re.search(pattern, response_text, re.IGNORECASE)
Search(pattern, text) ==
    IF Len(pattern) = 1
    THEN \E i \in 1..Len(text) : Lower(text[i]) = pattern[1]
    ELSE \E i, j \in 1..Len(text) :
            i < j /\ Lower(text[i]) = pattern[1] /\ Lower(text[j]) = pattern[2]

NoText == <<>>

\* the scan of response_text in is_session_expired (an absent or empty text is not scanned)
MatchesExpired(text) ==
    /\ text # NoText
    /\ \E k \in 1..Len(expired_patterns) : Search(expired_patterns[k], text)

Bundle(o) == [occasions |-> <<o>>]

Occ1 == [date |-> "2025-03-01", time |-> "09:00", locationName |-> "Stockholm",
         cost |-> "500kr", name |-> "X"]
Occ2 == [date |-> "2025-03-02", time |-> "09:00", locationName |-> "Stockholm",
         cost |-> "325kr", name |-> "X"]

\* The payloads the availability endpoint answers with.
Payloads ==
    {JsonPayload(200, "", <<>>),
     JsonPayload(200, "", <<Bundle(Occ2)>>),
     JsonPayload(200, "", <<Bundle(Occ1)>>),
     JsonPayload(200, "", <<Bundle(Occ2), Bundle(Occ1)>>),
     JsonPayload(500, "NullReferenceException", <<>>),
     HtmlPayload(<<"Login", "required">>),
     HtmlPayload(<<"Service", "Unavailable">>)}

Texts == {Text(p) : p \in Payloads}

\* ------------------------------------ SessionManager: the operations
\* cpc[c] is "idle", or the operation from which c has a request to
\* /Boka/getCookie in flight ("ensure", "expired", "refresh"), or "join"
\* (inside stop_background_refresh, waiting for the thread).
NoResult == [op |-> "none", value |-> FALSE]

InFlight(c) == cpc[c] \in {"ensure", "expired", "refresh"}

\* ensure_fresh_cookies renewing without the check
EnsureCallAlwaysRenews(c) ==
    /\ cpc[c] = "idle"
    /\ cpc' = [cpc EXCEPT ![c] = "ensure"]
    /\ UNCHANGED <<result, smVars, bgVars>>
    /\ UNCHANGED clientVars

\* ensure_fresh_cookies, to the return or to the send of the renewal request
EnsureCall(c) ==
    /\ cpc[c] = "idle"
    /\ IF should_refresh_cookies
       THEN /\ cpc' = [cpc EXCEPT ![c] = "ensure"]
            /\ UNCHANGED result
       ELSE /\ result' = [op |-> "ensure", value |-> TRUE]
            /\ UNCHANGED cpc
    /\ UNCHANGED <<smVars, bgVars>>
    /\ UNCHANGED clientVars

\* is_session_expired(response_text), likewise
ExpiredCall(c, text) ==
    /\ cpc[c] = "idle"
    /\ IF should_refresh_cookies
       THEN /\ cpc' = [cpc EXCEPT ![c] = "expired"]
            /\ UNCHANGED result
       ELSE /\ result' = [op |-> "expired", value |-> MatchesExpired(text)]
            /\ UNCHANGED cpc
    /\ UNCHANGED <<smVars, bgVars>>
    /\ UNCHANGED clientVars

\* refresh_cookies_proactively, to the send of the request
RefreshCall(c) ==
    /\ cpc[c] = "idle"
    /\ cpc' = [cpc EXCEPT ![c] = "refresh"]
    /\ UNCHANGED <<result, smVars, bgVars>>
    /\ UNCHANGED clientVars

\* what the operation op returns when its renewal ended with ok
ReturnValue(op, ok) == IF op = "expired" THEN ~ok ELSE ok

\* the response of /Boka/getCookie arrives (or the request raises) and the
\* operation returns
RenewalReturns(c, resp, saved) ==
    /\ InFlight(c)
    /\ ApplyRenewal(resp, saved)
    /\ result' = [op |-> cpc[c], value |-> ReturnValue(cpc[c], RefreshSucceeds(resp))]
    /\ cpc' = [cpc EXCEPT ![c] = "idle"]
    /\ UNCHANGED <<now, bgVars>>
    /\ UNCHANGED clientVars

\* the clock advances
Tick ==
    /\ now < MaxTime
    /\ now' = now + TickMinutes
    /\ UNCHANGED <<current_cookies, last_refresh_time, config, bgVars, thVars>>
    /\ UNCHANGED clientVars

\* SessionManager.__init__: the cookies are those of config.json
InitManager ==
    /\ now = 0
    /\ config \in CookieDicts
    /\ current_cookies = config
    /\ last_refresh_time = None
    /\ background_thread = None
    /\ background_running = FALSE
    /\ background_interval = 300

NoResponse == [kind |-> "none", status_code |-> 0, payload |-> HtmlPayload(<<>>)]
NoOutcome == [kind |-> "none", status_code |-> 0, value |-> <<>>]
NoJournal == [open |-> FALSE, rows |-> <<>>]
NoHeld == [op |-> "none", ref |-> "none", cookies |-> EmptyDict]
NoCall == [op |-> "none"]

\* TrafikverketAPI.__init__: the template has no locationId
InitParams ==
    /\ fpc = "idle"
    /\ default_params = [locationId |-> None, languageId |-> None]
    /\ extended = FALSE
    /\ r = NoResponse
    /\ renewal_log = <<>>
    /\ requests = 0
    /\ outcome = NoOutcome
    /\ held = NoHeld
    /\ last_call = NoCall

\* run has not been called; RideDatabase._init_database has created the table
InitDatabase ==
    /\ mpc = "off"
    /\ loc = 1
    /\ attempt = 0
    /\ available_rides_list = <<>>
    /\ last_available_rides = {}
    /\ new_rides = {}
    /\ removed_rides = {}
    /\ raised = "none"
    /\ table = <<>>
    /\ journal = NoJournal
    /\ ins = 1
    /\ previous_rides_list = <<>>

Init ==
    /\ InitManager
    /\ cpc = [c \in Callers |-> "idle"]
    /\ result = NoResult
    /\ wpc = [w \in Workers |-> "unborn"]
    /\ jar = EmptyDict
    /\ InitParams
    /\ InitDatabase

\* The foreground thread is caller 1.
Foreground == 1

Next ==
    \/ EnsureCall(Foreground)
    \/ \E text \in Texts \cup {NoText} : ExpiredCall(Foreground, text)
    \/ RefreshCall(Foreground)
    \/ \E resp \in RenewResponses : \E saved \in BOOLEAN :
          RenewalReturns(Foreground, resp, saved)
    \/ Tick

Spec == Init /\ [][Next]_vars

\* ---------------------------------------------- concurrent callers
\* NCallers threads call the manager at one instant of the clock.
InitCallers ==
    /\ now \in {0, MaxTime}
    /\ config \in CookieDicts
    /\ current_cookies = config
    /\ last_refresh_time \in {None, 0}
    /\ background_thread = None
    /\ background_running = FALSE
    /\ background_interval = 300
    /\ cpc = [c \in Callers |-> "idle"]
    /\ result = NoResult
    /\ wpc = [w \in Workers |-> "unborn"]
    /\ jar = EmptyDict
    /\ InitParams
    /\ InitDatabase

NextCallers ==
    \/ \E c \in Callers : EnsureCall(c)
    \/ \E c \in Callers : \E text \in Texts \cup {NoText} : ExpiredCall(c, text)
    \/ \E c \in Callers : RefreshCall(c)
    \/ \E c \in Callers : \E resp \in RenewResponses : \E saved \in BOOLEAN :
          RenewalReturns(c, resp, saved)

SpecCallers == InitCallers /\ [][NextCallers]_vars

\* C2: when renewal is due and several callers invoke ensure_fresh_cookies
\* concurrently, one renewal round-trip is made: no two callers have a
\* request of ensure_fresh_cookies in flight together.
C2_EnsureFreshSingleRoundTrip ==
    Cardinality({c \in Callers : cpc[c] = "ensure"}) <= 1

\* ------------------------------------------- the background thread
\* wpc[w]: "unborn" (not started), "loop" (at the while condition), "post"
\* (its renewal request is in flight), "sleep" (in time.sleep), "backoff"
\* (in the time.sleep(60) of the except clause), "exited".
Intervals == {60, 300}

\* an interval_seconds that time.sleep rejects with ValueError
BadInterval == 0 - 5

Alive(w) == wpc[w] \notin {"unborn", "exited"}

\* start_background_refresh without the test of the flag
StartBackgroundAlways(interval_seconds) ==
    /\ cpc[Foreground] = "idle"
    /\ \E w \in Workers :
          /\ wpc[w] = "unborn"
          /\ \A v \in Workers : v < w => wpc[v] # "unborn"
          /\ background_interval' = interval_seconds
          /\ background_running' = TRUE
          /\ background_thread' = w
          /\ wpc' = [wpc EXCEPT ![w] = "loop"]
    /\ result' = [op |-> "start", value |-> ~background_running]
    /\ UNCHANGED <<smVars, cpc>>
    /\ UNCHANGED clientVars

\* start_background_refresh(interval_seconds); the value of result tells
\* which message it printed: TRUE "Started background cookie refresh",
\* FALSE "Background refresh already running"
StartBackground(interval_seconds) ==
    /\ cpc[Foreground] = "idle"
    /\ IF background_running
       THEN UNCHANGED bgVars
       ELSE \E w \in Workers :
              /\ wpc[w] = "unborn"
              /\ \A v \in Workers : v < w => wpc[v] # "unborn"
              /\ background_interval' = interval_seconds
              /\ background_running' = TRUE
              /\ background_thread' = w
              /\ wpc' = [wpc EXCEPT ![w] = "loop"]
    /\ result' = [op |-> "start", value |-> ~background_running]
    /\ UNCHANGED <<smVars, cpc>>
    /\ UNCHANGED clientVars

\* stop_background_refresh: the flag is cleared, then join(timeout=1)
StopBackground ==
    /\ cpc[Foreground] = "idle"
    /\ background_running' = FALSE
    /\ cpc' = [cpc EXCEPT ![Foreground] =
                 IF background_thread # None THEN "join" ELSE "idle"]
    /\ UNCHANGED <<background_thread, background_interval, wpc, smVars, result>>
    /\ UNCHANGED clientVars

\* join(timeout=1) returns: the thread has ended, or the second is over (a
\* thread that is at its while condition gets there within the second; one
\* that sleeps or waits for a response may not)
JoinReturns ==
    /\ cpc[Foreground] = "join"
    /\ wpc[background_thread] \in {"exited", "sleep", "backoff", "post"}
    /\ cpc' = [cpc EXCEPT ![Foreground] = "idle"]
    /\ UNCHANGED <<bgVars, smVars, result>>
    /\ UNCHANGED clientVars

\* an exception of time.sleep ending the thread
SleepOrRaiseUncaught(interval) == IF interval < 0 THEN "exited" ELSE "sleep"

\* time.sleep(self.background_interval) inside the try: the thread sleeps,
\* or ValueError is raised and the except clause sleeps 60 seconds
SleepOrRaise(interval) == IF interval < 0 THEN "backoff" ELSE "sleep"

\* _background_refresh_loop going on whatever the flag
WorkerLoopIgnoresFlag(w) ==
    /\ wpc[w] = "loop"
    /\ wpc' = [wpc EXCEPT ![w] =
                 IF should_refresh_cookies THEN "post"
                 ELSE SleepOrRaise(background_interval)]
    /\ UNCHANGED <<background_running, background_thread, background_interval,
                   smVars, thVars>>
    /\ UNCHANGED clientVars

\* _background_refresh_loop: the while condition, and the iteration up to
\* the send of the renewal request or to the sleep
WorkerLoop(w) ==
    /\ wpc[w] = "loop"
    /\ wpc' = [wpc EXCEPT ![w] =
                 IF ~background_running THEN "exited"
                 ELSE IF should_refresh_cookies THEN "post"
                 ELSE SleepOrRaise(background_interval)]
    /\ UNCHANGED <<background_running, background_thread, background_interval,
                   smVars, thVars>>
    /\ UNCHANGED clientVars

\* the worker ending when its renewal has failed
WorkerRenewalReturnsFailureEnds(w, resp, saved) ==
    /\ wpc[w] = "post"
    /\ ApplyRenewal(resp, saved)
    /\ wpc' = [wpc EXCEPT ![w] =
                 IF RefreshSucceeds(resp) THEN SleepOrRaise(background_interval)
                 ELSE "exited"]
    /\ UNCHANGED <<now, background_running, background_thread, background_interval,
                   thVars>>
    /\ UNCHANGED clientVars

\* the response to the worker's renewal request arrives; the worker sleeps
WorkerRenewalReturns(w, resp, saved) ==
    /\ wpc[w] = "post"
    /\ ApplyRenewal(resp, saved)
    /\ wpc' = [wpc EXCEPT ![w] = SleepOrRaise(background_interval)]
    /\ UNCHANGED <<now, background_running, background_thread, background_interval,
                   thVars>>
    /\ UNCHANGED clientVars

\* time.sleep(self.background_interval) returns
WorkerWakes(w) ==
    /\ wpc[w] = "sleep"
    /\ wpc' = [wpc EXCEPT ![w] = "loop"]
    /\ UNCHANGED <<background_running, background_thread, background_interval,
                   smVars, thVars>>
    /\ UNCHANGED clientVars

\* time.sleep(60) of the except clause returns
WorkerBackoffEnds(w) ==
    /\ wpc[w] = "backoff"
    /\ wpc' = [wpc EXCEPT ![w] = "loop"]
    /\ UNCHANGED <<background_running, background_thread, background_interval,
                   smVars, thVars>>
    /\ UNCHANGED clientVars

\* The monitor has run for MaxTime minutes when the model starts.
InitBackground ==
    /\ now = MaxTime
    /\ config \in {d \in CookieDicts : d["FpsExternalIdentity"] = "id1"}
    /\ current_cookies = config
    /\ last_refresh_time \in {None, 0}
    /\ background_thread = None
    /\ background_running = FALSE
    /\ background_interval = 300
    /\ cpc = [c \in Callers |-> "idle"]
    /\ result = NoResult
    /\ wpc = [w \in Workers |-> "unborn"]
    /\ jar = EmptyDict
    /\ InitParams
    /\ InitDatabase

NextBackground ==
    \/ EnsureCall(Foreground)
    \/ \E text \in Texts \cup {NoText} : ExpiredCall(Foreground, text)
    \/ RefreshCall(Foreground)
    \/ \E resp \in RenewResponses : \E saved \in BOOLEAN :
          RenewalReturns(Foreground, resp, saved)
    \/ \E i \in Intervals : StartBackground(i)
    \/ StopBackground
    \/ JoinReturns
    \/ \E w \in Workers : WorkerLoop(w)
    \/ \E w \in Workers : \E resp \in RenewResponses : \E saved \in BOOLEAN :
          WorkerRenewalReturns(w, resp, saved)
    \/ \E w \in Workers : WorkerWakes(w)

SpecBackground == InitBackground /\ [][NextBackground]_vars

\* the renewal requests in flight
RenewalsInFlight ==
    {<<"caller", c>> : c \in {c \in Callers : InFlight(c)}}
    \cup {<<"worker", w>> : w \in {w \in Workers : wpc[w] = "post"}}

\* C1: in every interleaving of the foreground poller and the background
\* renewal task, at most one request to the renewal endpoint is in flight.
C1_OneRenewalInFlight == Cardinality(RenewalsInFlight) <= 1

\* C9: after any sequence of start_background_refresh and
\* stop_background_refresh, at most one background worker is inside the
\* renewal loop.
C9_AtMostOneWorker ==
    Cardinality({w \in Workers : wpc[w] \in {"post", "sleep"}}) <= 1

\* ------------------------------------- TrafikverketAPI.get_available_dates
\* fpc: "idle", or the request the call waits for:
\*   "ensure"      the renewal of ensure_fresh_cookies (_ensure_fresh_session)
\*   "post1"       the first request to /Boka/occasion-bundles
\*   "h1_expired"  the renewal inside is_session_expired, first _handle_session_error
\*   "h1_refresh"  the renewal of the first _handle_session_error itself
\*   "post2"       the retry
\*   "h2_expired", "h2_refresh"   the same two renewals in the
\*                 _handle_session_error of the response handling
LocationIds == {1, 2}

AvailResponses ==
    {[kind |-> "exception", status_code |-> 0, payload |-> HtmlPayload(<<>>)]}
    \cup {[kind |-> "response", status_code |-> 200, payload |-> p] : p \in Payloads}
    \cup {[kind |-> "response", status_code |-> 500,
           payload |-> HtmlPayload(<<"Service", "Unavailable">>)],
          [kind |-> "response", status_code |-> 401,
           payload |-> HtmlPayload(<<"Unauthorized">>)],
          [kind |-> "response", status_code |-> 500,
           payload |-> JsonPayload(200, "", <<Bundle(Occ2)>>)]}

Returned(v) == [kind |-> "return", status_code |-> 0, value |-> v]
Raise(k, code) == [kind |-> k, status_code |-> code, value |-> <<>>]

\* the time of the first occasion taken where the date is meant
TimesFound(bundles) == [i \in 1..Len(bundles) |-> bundles[i].occasions[1].time]

\* dates_found
DatesFound(bundles) == [i \in 1..Len(bundles) |-> bundles[i].occasions[1].date]

\* _handle_session_error up to its first renewal request: is_session_expired
\* sends one when renewal is due; else, on a match, _handle_session_error
\* sends its own; else it returns False.
HandleStart(text, due) ==
    IF due THEN "expired" ELSE IF MatchesExpired(text) THEN "refresh" ELSE "false"

\* the payload looked at before the status code
EvaluatePayloadFirst(resp, due, ext) ==
    IF resp.payload.json /\ resp.payload.status = 200
    THEN [pc |-> "idle",
          outcome |-> Returned(IF ext THEN resp.payload.bundles
                                      ELSE DatesFound(resp.payload.bundles))]
    ELSE IF resp.status_code # 200
    THEN [pc |-> "idle", outcome |-> Raise("HTTPStatus", resp.status_code)]
    ELSE LET h == HandleStart(Text(resp.payload), due) IN
         IF h = "false"
         THEN [pc |-> "idle", outcome |-> Raise("HTTPStatus", resp.status_code)]
         ELSE [pc |-> "h2_" \o h, outcome |-> NoOutcome]

\* "if r.status_code == 200: ... else: raise", up to the first renewal
\* request of its _handle_session_error
Evaluate(resp, due, ext) ==
    IF resp.status_code # 200
    THEN [pc |-> "idle", outcome |-> Raise("HTTPStatus", resp.status_code)]
    ELSE IF resp.payload.json /\ resp.payload.status = 200
    THEN [pc |-> "idle",
          outcome |-> Returned(IF ext THEN resp.payload.bundles
                                      ELSE DatesFound(resp.payload.bundles))]
    ELSE LET h == HandleStart(Text(resp.payload), due) IN
         IF h = "false"
         THEN [pc |-> "idle", outcome |-> Raise("HTTPStatus", resp.status_code)]
         ELSE [pc |-> "h2_" \o h, outcome |-> NoOutcome]

\* "if self._handle_session_error(response_text):" on the first response
AfterFirstResponse(resp, due, ext) ==
    LET h == HandleStart(Text(resp.payload), due) IN
    IF h = "false" THEN Evaluate(resp, due, ext)
    ELSE [pc |-> "h1_" \o h, outcome |-> NoOutcome]

\* the retry's response handled as the first one is: invalidation handling
\* and one more retry
AfterRetryResponseRetries(resp, due, ext) == AfterFirstResponse(resp, due, ext)

\* the response of the retry goes to "# Handle response" directly
AfterRetryResponse(resp, due, ext) == Evaluate(resp, due, ext)

\* whether renewal is due once the renewal in flight has been applied
DueAfter == ShouldRefresh(now, last_refresh_time', current_cookies')

\* get_available_dates(location_id, extended_information), to the first request sent
FetchCall(location_id, ext) ==
    /\ fpc = "idle"
    /\ default_params' = [locationId |-> location_id, languageId |-> 4]
    /\ extended' = ext
    /\ r' = NoResponse
    /\ renewal_log' = <<>>
    /\ outcome' = NoOutcome
    /\ IF should_refresh_cookies
       THEN /\ fpc' = "ensure"
            /\ requests' = 0
            /\ UNCHANGED jar
       ELSE /\ jar' = current_cookies
            /\ fpc' = "post1"
            /\ requests' = 1
    /\ UNCHANGED <<smVars, bgVars, thVars, monVars, held, last_call>>

\* a failed renewal of ensure_fresh_cookies ending the call
EnsureReturnsFailureRaises(resp, saved) ==
    /\ fpc = "ensure"
    /\ ApplyRenewal(resp, saved)
    /\ renewal_log' = Append(renewal_log, RefreshSucceeds(resp))
    /\ IF RefreshSucceeds(resp)
       THEN /\ jar' = current_cookies'
            /\ fpc' = "post1"
            /\ requests' = requests + 1
            /\ UNCHANGED outcome
       ELSE /\ fpc' = "idle"
            /\ outcome' = Raise("SessionExpiredError", 0)
            /\ UNCHANGED <<jar, requests>>
    /\ UNCHANGED <<now, default_params, extended, r, bgVars, thVars, monVars, held, last_call>>

\* the renewal of ensure_fresh_cookies ends; the jar is synchronised and
\* the first request is sent
EnsureReturns(resp, saved) ==
    /\ fpc = "ensure"
    /\ ApplyRenewal(resp, saved)
    /\ renewal_log' = Append(renewal_log, RefreshSucceeds(resp))
    /\ jar' = current_cookies'
    /\ fpc' = "post1"
    /\ requests' = requests + 1
    /\ UNCHANGED <<now, default_params, extended, r, outcome, bgVars, thVars, monVars, held, last_call>>

\* the response to the first request (or a transport error, which the call
\* lets through)
FirstResponse(resp) ==
    /\ fpc = "post1"
    /\ IF resp.kind = "exception"
       THEN /\ fpc' = "idle"
            /\ outcome' = Raise("RequestException", 0)
            /\ UNCHANGED r
       ELSE LET next == AfterFirstResponse(resp, should_refresh_cookies, extended) IN
            /\ r' = resp
            /\ fpc' = next.pc
            /\ outcome' = next.outcome
    /\ UNCHANGED <<jar, default_params, extended, renewal_log, requests,
                   smVars, bgVars, thVars, monVars, held, last_call>>

\* first _handle_session_error: the renewal of is_session_expired ends.
\* Success: is_session_expired is False, no retry.  Failure: it is True,
\* and refresh_cookies_proactively is called again.
FirstExpiredReturns(resp, saved) ==
    /\ fpc = "h1_expired"
    /\ ApplyRenewal(resp, saved)
    /\ renewal_log' = Append(renewal_log, RefreshSucceeds(resp))
    /\ IF RefreshSucceeds(resp)
       THEN LET next == Evaluate(r, DueAfter, extended) IN
            /\ fpc' = next.pc
            /\ outcome' = next.outcome
       ELSE /\ fpc' = "h1_refresh"
            /\ UNCHANGED outcome
    /\ UNCHANGED <<now, jar, default_params, extended, r, requests,
                   bgVars, thVars, monVars, held, last_call>>

\* first _handle_session_error: its own renewal ends.  Success: the jar
\* is synchronised and the request is sent again.
FirstRefreshReturns(resp, saved) ==
    /\ fpc = "h1_refresh"
    /\ ApplyRenewal(resp, saved)
    /\ renewal_log' = Append(renewal_log, RefreshSucceeds(resp))
    /\ IF RefreshSucceeds(resp)
       THEN /\ jar' = current_cookies'
            /\ fpc' = "post2"
            /\ requests' = requests + 1
            /\ UNCHANGED outcome
       ELSE LET next == Evaluate(r, DueAfter, extended) IN
            /\ fpc' = next.pc
            /\ outcome' = next.outcome
            /\ UNCHANGED <<jar, requests>>
    /\ UNCHANGED <<now, default_params, extended, r, bgVars, thVars, monVars, held, last_call>>

\* the response to the retry
RetryResponse(resp) ==
    /\ fpc = "post2"
    /\ IF resp.kind = "exception"
       THEN /\ fpc' = "idle"
            /\ outcome' = Raise("RequestException", 0)
            /\ UNCHANGED r
       ELSE LET next == AfterRetryResponse(resp, should_refresh_cookies, extended) IN
            /\ r' = resp
            /\ fpc' = next.pc
            /\ outcome' = next.outcome
    /\ UNCHANGED <<jar, default_params, extended, renewal_log, requests,
                   smVars, bgVars, thVars, monVars, held, last_call>>

\* _handle_session_error of the response handling: the renewal of
\* is_session_expired ends.  Success: _handle_session_error is False and
\* HTTPStatus is raised.
SecondExpiredReturns(resp, saved) ==
    /\ fpc = "h2_expired"
    /\ ApplyRenewal(resp, saved)
    /\ renewal_log' = Append(renewal_log, RefreshSucceeds(resp))
    /\ IF RefreshSucceeds(resp)
       THEN /\ fpc' = "idle"
            /\ outcome' = Raise("HTTPStatus", r.status_code)
       ELSE /\ fpc' = "h2_refresh"
            /\ UNCHANGED outcome
    /\ UNCHANGED <<now, jar, default_params, extended, r, requests,
                   bgVars, thVars, monVars, held, last_call>>

\* the request sent once more after that renewal has succeeded
SecondRefreshReturnsRetries(resp, saved) ==
    /\ fpc = "h2_refresh"
    /\ ApplyRenewal(resp, saved)
    /\ renewal_log' = Append(renewal_log, RefreshSucceeds(resp))
    /\ IF RefreshSucceeds(resp)
       THEN /\ jar' = current_cookies'
            /\ fpc' = "post2"
            /\ requests' = requests + 1
            /\ UNCHANGED outcome
       ELSE /\ fpc' = "idle"
            /\ outcome' = Raise("HTTPStatus", r.status_code)
            /\ UNCHANGED <<jar, requests>>
    /\ UNCHANGED <<now, default_params, extended, r, bgVars, thVars, monVars, held, last_call>>

\* _handle_session_error of the response handling: its own renewal ends.
\* It returns True when the renewal succeeded, and then
\* SessionExpiredError is raised; else HTTPStatus.
SecondRefreshReturns(resp, saved) ==
    /\ fpc = "h2_refresh"
    /\ ApplyRenewal(resp, saved)
    /\ renewal_log' = Append(renewal_log, RefreshSucceeds(resp))
    /\ fpc' = "idle"
    /\ IF RefreshSucceeds(resp)
       THEN /\ jar' = current_cookies'
            /\ outcome' = Raise("SessionExpiredError", 0)
       ELSE /\ outcome' = Raise("HTTPStatus", r.status_code)
            /\ UNCHANGED jar
    /\ UNCHANGED <<now, default_params, extended, r, requests, bgVars, thVars, monVars, held, last_call>>

InitFetch ==
    /\ InitManager
    /\ cpc = [c \in Callers |-> "idle"]
    /\ result = NoResult
    /\ wpc = [w \in Workers |-> "unborn"]
    /\ jar = current_cookies
    /\ InitParams
    /\ InitDatabase

NextFetch ==
    \/ \E l \in LocationIds : \E ext \in BOOLEAN : FetchCall(l, ext)
    \/ \E resp \in RenewResponses : \E saved \in BOOLEAN : EnsureReturns(resp, saved)
    \/ \E resp \in AvailResponses : FirstResponse(resp)
    \/ \E resp \in RenewResponses : \E saved \in BOOLEAN : FirstExpiredReturns(resp, saved)
    \/ \E resp \in RenewResponses : \E saved \in BOOLEAN : FirstRefreshReturns(resp, saved)
    \/ \E resp \in AvailResponses : RetryResponse(resp)
    \/ \E resp \in RenewResponses : \E saved \in BOOLEAN : SecondExpiredReturns(resp, saved)
    \/ \E resp \in RenewResponses : \E saved \in BOOLEAN : SecondRefreshReturns(resp, saved)
    \/ Tick

SpecFetch == InitFetch /\ [][NextFetch]_vars

\* the call has ended by evaluating the response r
Evaluated == fpc = "idle" /\ outcome.kind \in {"return", "HTTPStatus", "SessionExpiredError"}

\* r has status 200 and a JSON payload whose status field is not 200
EmbeddedFailure ==
    r.kind = "response" /\ r.status_code = 200 /\ r.payload.json /\ r.payload.status # 200

RenewalFailed == \E i \in 1..Len(renewal_log) : ~renewal_log[i]
RenewalSucceeded == \E i \in 1..Len(renewal_log) : renewal_log[i]

\* C3: one call of get_available_dates makes at most one renewal
\* round-trip, counting those of ensure_fresh_cookies, of the invalidation
\* handling and of the classification of a failed response.
C3_AtMostOneRenewalPerCall == Len(renewal_log) <= 1

\* C4: on a 200 response whose JSON payload has a failure status, the call
\* raises SessionExpiredError when the renewals it attempted failed, and
\* HTTPStatus when no renewal failed.
C4_EmbeddedFailureClassified ==
    (Evaluated /\ EmbeddedFailure) =>
        /\ (RenewalFailed /\ ~RenewalSucceeded) => outcome.kind = "SessionExpiredError"
        /\ ~RenewalFailed => outcome.kind = "HTTPStatus"

\* C5: SessionExpiredError is raised only after a renewal that failed,
\* never as the direct consequence of a renewal that succeeded: the last
\* renewal before it has failed.
C5_SessionExpiredOnlyAfterFailedRenewal ==
    (fpc = "idle" /\ outcome.kind = "SessionExpiredError") =>
        /\ renewal_log # <<>>
        /\ ~renewal_log[Len(renewal_log)]

\* ------------------------------- helpers/database.py and monitor_rides.run
\* the examination type run is called with, and another one in the table
examination_type == "Kunskapsprov"
OtherType == "Korprov"

\* valid_location_ids[examination_type]
valid_location_ids == <<1, 2>>

\* constants.MAX_ATTEMPTS
MAX_ATTEMPTS == 2

strip_useless_info(rides) ==
    [i \in 1..Len(rides) |->
        [time |-> rides[i].occasions[1].time,
         location |-> rides[i].occasions[1].locationName,
         cost |-> rides[i].occasions[1].cost,
         date |-> rides[i].occasions[1].date,
         name |-> rides[i].occasions[1].name]]

\* a row of table rides; created_at is CURRENT_TIMESTAMP at the insert
Row(ride, ty, t) ==
    [name |-> ride.name, date |-> ride.date, time |-> ride.time,
     location |-> ride.location, cost |-> ride.cost,
     examination_type |-> ty, created_at |-> t]

\* the DELETE without its WHERE clause
DeleteRidesAll(tbl, ty) == SelectSeq(tbl, LAMBDA row : FALSE)

\* DELETE FROM rides WHERE examination_type = ?
DeleteRides(tbl, ty) == SelectSeq(tbl, LAMBDA row : row.examination_type # ty)

\* get_rides_as_set: the tuples of the items of the dictionaries of
\* get_all_rides, which selects name, date, time, location, cost, created_at
get_rides_as_set(tbl, ty) ==
    {[name |-> tbl[i].name, date |-> tbl[i].date, time |-> tbl[i].time,
      location |-> tbl[i].location, cost |-> tbl[i].cost,
      created_at |-> tbl[i].created_at] :
        i \in {j \in 1..Len(tbl) : tbl[j].examination_type = ty}}

\* the other outcome of a failed transaction: the rows written so far stay
RollbackKeepsPartial(tbl, jr) == tbl

\* "with sqlite3.connect(...) as conn": an exception in the block rolls the
\* open transaction back; the rows are those before the DELETE
Rollback(tbl, jr) == jr.rows

\* what get_available_dates(location_id, extended_information=True) does
FetchOutcomes ==
    {Returned(<<>>), Returned(<<Bundle(Occ1)>>), Returned(<<Bundle(Occ2)>>),
     Raise("SessionExpiredError", 0), Raise("HTTPStatus", 500),
     Raise("RequestException", 0)}

\* the frame of the steps of run
MonFrame == UNCHANGED <<smVars, thVars, apiVars, previous_rides_list, held, last_call>>

\* "finally: stop_background_refresh()", and run ends with exception exc
\* ("none": KeyboardInterrupt was caught)
Ends(exc) ==
    /\ raised' = exc
    /\ mpc' = "ended"
    /\ background_running' = FALSE
    /\ UNCHANGED <<background_thread, background_interval, wpc>>

\* a break that leaves the loop over the locations too
NextLocationLeavesLoop ==
    /\ attempt' = 0
    /\ loc' = loc
    /\ mpc' = "store"

\* the for loop over the locations goes on (break, or the attempts are used up)
NextLocation ==
    /\ attempt' = 0
    /\ IF loc < Len(valid_location_ids)
       THEN loc' = loc + 1 /\ mpc' = "fetch"
       ELSE loc' = loc /\ mpc' = "store"

\* run, up to the first get_available_dates
MonRun ==
    /\ mpc = "off"
    /\ last_available_rides' = get_rides_as_set(table, examination_type)
    /\ IF background_running
       THEN UNCHANGED bgVars
       ELSE \E w \in Workers :
              /\ wpc[w] = "unborn"
              /\ \A v \in Workers : v < w => wpc[v] # "unborn"
              /\ background_interval' = 300
              /\ background_running' = TRUE
              /\ background_thread' = w
              /\ wpc' = [wpc EXCEPT ![w] = "loop"]
    /\ available_rides_list' = <<>>
    /\ loc' = 1
    /\ attempt' = 0
    /\ mpc' = "fetch"
    /\ UNCHANGED <<new_rides, removed_rides, raised, table, journal, ins>>
    /\ MonFrame

\* "for _ in range(MAX_ATTEMPTS): try: available_rides_list.extend(...)":
\* one attempt on the location, with what get_available_dates does
MonFetch(out) ==
    /\ mpc = "fetch"
    /\ IF out.kind = "return"
       THEN /\ available_rides_list' =
                  available_rides_list \o strip_useless_info(out.value)
            /\ NextLocation
       ELSE IF out.kind = "SessionExpiredError"
       THEN /\ mpc' = "manual"
            /\ UNCHANGED <<available_rides_list, loc, attempt>>
       ELSE \* HTTPStatus, RequestException: logged; time.sleep(WAIT_TIME)
            /\ UNCHANGED available_rides_list
            /\ IF attempt + 1 < MAX_ATTEMPTS
               THEN attempt' = attempt + 1 /\ UNCHANGED <<mpc, loc>>
               ELSE NextLocation
    /\ UNCHANGED <<last_available_rides, new_rides, removed_rides, raised,
                   table, journal, ins, bgVars>>
    /\ MonFrame

\* "except SessionExpiredError: if refresh_cookies_proactively():"
MonManual(ok) ==
    /\ mpc = "manual"
    /\ IF ok
       THEN mpc' = "retry" /\ UNCHANGED <<loc, attempt>>
       ELSE NextLocation
    /\ UNCHANGED <<available_rides_list, last_available_rides, new_rides,
                   removed_rides, raised, table, journal, ins, bgVars>>
    /\ MonFrame

\* the retry inside the except clause: only SessionExpiredError is caught
\* there; any other exception leaves the try statement and run
MonRetry(out) ==
    /\ mpc = "retry"
    /\ IF out.kind = "return"
       THEN /\ available_rides_list' =
                  available_rides_list \o strip_useless_info(out.value)
            /\ NextLocation
            /\ UNCHANGED <<raised, bgVars>>
       ELSE IF out.kind = "SessionExpiredError"
       THEN /\ NextLocation
            /\ UNCHANGED <<available_rides_list, raised, bgVars>>
       ELSE /\ Ends(out.kind)
            /\ UNCHANGED <<available_rides_list, loc, attempt>>
    /\ UNCHANGED <<last_available_rides, new_rides, removed_rides,
                   table, journal, ins>>
    /\ MonFrame

\* "if available_rides_list: database.store_rides(...)", to the DELETE
MonStore ==
    /\ mpc = "store"
    /\ IF available_rides_list = <<>>
       THEN /\ mpc' = "diff"
            /\ UNCHANGED <<table, journal, ins>>
       ELSE /\ journal' = [open |-> TRUE, rows |-> table]
            /\ table' = DeleteRides(table, examination_type)
            /\ ins' = 1
            /\ mpc' = "insert"
    /\ UNCHANGED <<loc, attempt, available_rides_list, last_available_rides,
                   new_rides, removed_rides, raised, bgVars>>
    /\ MonFrame

\* store_rides: one INSERT
MonInsert ==
    /\ mpc = "insert"
    /\ ins <= Len(available_rides_list)
    /\ table' = Append(table, Row(available_rides_list[ins], examination_type, now))
    /\ ins' = ins + 1
    /\ UNCHANGED <<mpc, loc, attempt, available_rides_list, last_available_rides,
                   new_rides, removed_rides, raised, journal, bgVars>>
    /\ MonFrame

\* store_rides: an INSERT raises sqlite3.Error; the with block rolls back
\* and the exception leaves run
MonInsertFails ==
    /\ mpc = "insert"
    /\ ins <= Len(available_rides_list)
    /\ table' = Rollback(table, journal)
    /\ journal' = NoJournal
    /\ Ends("sqlite3.Error")
    /\ UNCHANGED <<loc, attempt, available_rides_list, last_available_rides,
                   new_rides, removed_rides, ins>>
    /\ MonFrame

\* store_rides: conn.commit()
MonCommit ==
    /\ mpc = "insert"
    /\ ins > Len(available_rides_list)
    /\ journal' = NoJournal
    /\ mpc' = "diff"
    /\ UNCHANGED <<loc, attempt, available_rides_list, last_available_rides,
                   new_rides, removed_rides, raised, table, ins, bgVars>>
    /\ MonFrame

\* the two differences taken the wrong way round
MonDiffSwapped ==
    /\ mpc = "diff"
    /\ LET current_available_rides == get_rides_as_set(table, examination_type) IN
         /\ new_rides' = last_available_rides \ current_available_rides
         /\ removed_rides' = current_available_rides \ last_available_rides
         /\ last_available_rides' = current_available_rides
    /\ mpc' = "sleep"
    /\ UNCHANGED <<loc, attempt, available_rides_list, raised, table, journal,
                   ins, bgVars>>
    /\ MonFrame

\* the comparison with the previous cycle, to time.sleep(polling_frequency)
MonDiff ==
    /\ mpc = "diff"
    /\ LET current_available_rides == get_rides_as_set(table, examination_type) IN
         /\ new_rides' = current_available_rides \ last_available_rides
         /\ removed_rides' = last_available_rides \ current_available_rides
         /\ last_available_rides' = current_available_rides
    /\ mpc' = "sleep"
    /\ UNCHANGED <<loc, attempt, available_rides_list, raised, table, journal,
                   ins, bgVars>>
    /\ MonFrame

\* time.sleep(polling_frequency) returns: the next cycle
MonWake ==
    /\ mpc = "sleep"
    /\ previous_rides_list' = available_rides_list
    /\ available_rides_list' = <<>>
    /\ loc' = 1
    /\ attempt' = 0
    /\ mpc' = "fetch"
    /\ UNCHANGED <<last_available_rides, new_rides, removed_rides, raised,
                   table, journal, ins, bgVars, smVars, thVars, apiVars, held,
                   last_call>>

\* KeyboardInterrupt anywhere in the loop: an open transaction is rolled
\* back, "except KeyboardInterrupt" logs, finally stops the worker
MonCancel ==
    /\ mpc \notin {"off", "ended"}
    /\ IF journal.open
       THEN table' = Rollback(table, journal) /\ journal' = NoJournal
       ELSE UNCHANGED <<table, journal>>
    /\ Ends("KeyboardInterrupt")
    /\ UNCHANGED <<loc, attempt, available_rides_list, last_available_rides,
                   new_rides, removed_rides, ins>>
    /\ MonFrame

\* the tables run can find: empty, or the rows of an earlier run
InitialTables ==
    {<<>>,
     <<Row(strip_useless_info(<<Bundle(Occ1)>>)[1], OtherType, 0)>>,
     <<Row(strip_useless_info(<<Bundle(Occ1)>>)[1], examination_type, 0)>>}

InitMonitor ==
    /\ now = 0
    /\ config = [LoginValid |-> "2025-06-20 00:40", FpsExternalIdentity |-> "id1"]
    /\ current_cookies = config
    /\ last_refresh_time = None
    /\ background_thread = None
    /\ background_running = FALSE
    /\ background_interval = 300
    /\ cpc = [c \in Callers |-> "idle"]
    /\ result = NoResult
    /\ wpc = [w \in Workers |-> "unborn"]
    /\ jar = EmptyDict
    /\ InitParams
    /\ mpc = "off"
    /\ loc = 1
    /\ attempt = 0
    /\ available_rides_list = <<>>
    /\ last_available_rides = {}
    /\ new_rides = {}
    /\ removed_rides = {}
    /\ raised = "none"
    /\ table \in InitialTables
    /\ journal = NoJournal
    /\ ins = 1
    /\ previous_rides_list = <<>>

NextMonitor ==
    \/ MonRun
    \/ \E out \in FetchOutcomes : MonFetch(out)
    \/ \E ok \in BOOLEAN : MonManual(ok)
    \/ \E out \in FetchOutcomes : MonRetry(out)
    \/ MonStore
    \/ MonInsert
    \/ MonInsertFails
    \/ MonCommit
    \/ MonDiff
    \/ MonWake
    \/ MonCancel
    \/ Tick

SpecMonitor == InitMonitor /\ [][NextMonitor]_vars

\* the five fields an item is known by
Identity(x) == <<x.name, x.date, x.time, x.location, x.cost>>
Identities(S) == {Identity(x) : x \in S}

\* the rides of a batch, by their five fields
BatchIdentities(rides) == {Identity(rides[i]) : i \in 1..Len(rides)}

\* C6: the identity of an item for the diff is (name, date, time, location,
\* cost): a ride returned with the same five fields in the cycle before and
\* in this cycle is reported neither as new nor as removed by the diff of
\* this cycle.
C6_DiffIdentityIsFiveFields ==
    [][(mpc = "diff" /\ mpc' = "sleep") =>
          \A x \in new_rides' \cup removed_rides' :
              Identity(x) \notin
                  (BatchIdentities(previous_rides_list)
                      \cap BatchIdentities(available_rides_list))]_vars

\* C7: when a poll cycle has completed, the persisted rides of the
\* examination type are exactly the batch gathered in the cycle, also when
\* the batch is empty: no ride of an earlier cycle is left.
C7_PersistedEqualsBatch ==
    mpc = "sleep" =>
        Identities(get_rides_as_set(table, examination_type))
            = BatchIdentities(available_rides_list)

\* C8: no failure of get_available_dates on one location (HTTPStatus,
\* SessionExpiredError, RequestException, also from the retry after the
\* manual renewal) ends run; only KeyboardInterrupt does.
C8_ResourceFailureNeverEndsRun ==
    raised \notin {"HTTPStatus", "SessionExpiredError", "RequestException"}

\* C10: store_rides is all-or-nothing: when it fails after the DELETE and
\* before the last INSERT, the rows of the table are those before the call,
\* and the rides of the examination type are the previous ones, neither none
\* nor a mix of old and new rides.
C10_StoreRidesAllOrNothing ==
    [][(journal.open /\ ins <= Len(available_rides_list) /\ raised' # "none") =>
          /\ table' = journal.rows
          /\ get_rides_as_set(table', examination_type) = last_available_rides]_vars

\* an INSERT failed after another had been made and before the last one, and
\* the rides stored before the call are in the table
C10_Witness ==
    /\ raised = "sqlite3.Error"
    /\ ins > 1
    /\ ins <= Len(available_rides_list)
    /\ last_available_rides # {}
    /\ get_rides_as_set(table, examination_type) = last_available_rides

\* C11: one call of get_available_dates sends at most two requests to the
\* availability endpoint, whatever the responses and the renewals are.
C11_AtMostTwoRequests == requests <= 2

\* a call has ended after its retry
C11_Witness == fpc = "idle" /\ requests = 2 /\ outcome # NoOutcome

\* this step is a renewal of the call that succeeded
RenewalSucceedsNow ==
    /\ Len(renewal_log') = Len(renewal_log) + 1
    /\ renewal_log'[Len(renewal_log')]

\* C12: when the body of the first response has a marker of an invalidated
\* session, a renewal is attempted, and when a renewal of that handling
\* succeeds the request is sent once more with the renewed cookies, whether
\* renewal was due or not when the response arrived.
C12_MarkerRenewsAndRetries ==
    [][/\ (fpc = "post1" /\ r'.kind = "response" /\ MatchesExpired(Text(r'.payload)))
            => fpc' \in {"h1_expired", "h1_refresh"}
       /\ (fpc \in {"h1_expired", "h1_refresh"} /\ MatchesExpired(Text(r.payload))
             /\ RenewalSucceedsNow)
            => /\ fpc' = "post2"
               /\ requests' = requests + 1
               /\ jar' = current_cookies']_vars

\* r has status 200 and a body that is not JSON
Unparsable == r.kind = "response" /\ r.status_code = 200 /\ ~r.payload.json

\* C13: when the response evaluated has status 200 and a body that cannot
\* be parsed, the call raises SessionExpiredError if the body has a marker
\* of an invalidated session, and HTTPStatus otherwise.
C13_UnparsableClassified ==
    (Evaluated /\ Unparsable) =>
        IF MatchesExpired(Text(r.payload))
        THEN outcome.kind = "SessionExpiredError"
        ELSE outcome.kind = "HTTPStatus"

\* C14: when the response evaluated (the retry's if there was a retry) has
\* a status code other than 200, the call raises HTTPStatus with that
\* status code, whatever the payload is.
C14_NonOkStatusRaised ==
    (Evaluated /\ r.kind = "response" /\ r.status_code # 200) =>
        outcome = Raise("HTTPStatus", r.status_code)

\* the retry was answered with status 500 and a payload that reads as a
\* success
C14_Witness ==
    /\ Evaluated
    /\ requests = 2
    /\ r.status_code = 500
    /\ r.payload.json
    /\ r.payload.status = 200

\* C15: when the response has status 200 and a payload of status 200, the
\* call returns one entry per bundle, in the order of the payload: the
\* bundles themselves with extended_information, the date of the first
\* occasion of each bundle without; the fields of the occasion are those of
\* the payload.
C15_SuccessReturnsBundles ==
    (Evaluated /\ r.kind = "response" /\ r.status_code = 200
        /\ r.payload.json /\ r.payload.status = 200) =>
        /\ outcome.kind = "return"
        /\ Len(outcome.value) = Len(r.payload.bundles)
        /\ \A i \in 1..Len(r.payload.bundles) :
             LET o == r.payload.bundles[i].occasions[1] IN
             IF extended
             THEN /\ outcome.value[i] = r.payload.bundles[i]
                  /\ outcome.value[i].occasions[1] \in Occasions
                  /\ outcome.value[i].occasions[1] = o
             ELSE outcome.value[i] = o.date

\* two bundles were returned as their dates
C15_Witness ==
    /\ Evaluated
    /\ ~extended
    /\ Len(r.payload.bundles) = 2
    /\ outcome.value = <<"2025-03-02", "2025-03-01">>

\* ------------------- the client's cookie jar and the background thread
\* _update_session_cookies and the session.post that follows it are two
\* steps of the polling thread; the background thread runs between them.

\* _update_session_cookies: the jar is cleared and filled from
\* get_current_cookies()
UpdateSessionCookies ==
    /\ fpc = "idle"
    /\ jar' = current_cookies
    /\ fpc' = "synced"
    /\ UNCHANGED <<default_params, extended, r, renewal_log, requests, outcome>>
    /\ UNCHANGED <<smVars, bgVars, thVars, monVars, held, last_call>>

\* session.post(/Boka/occasion-bundles): the request goes out with the jar
PostRequest ==
    /\ fpc = "synced"
    /\ fpc' = "post1"
    /\ UNCHANGED <<jar, default_params, extended, r, renewal_log, requests, outcome>>
    /\ UNCHANGED <<smVars, bgVars, thVars, monVars, held, last_call>>

\* the response arrives
PostReturns(resp) ==
    /\ fpc = "post1"
    /\ r' = resp
    /\ fpc' = "idle"
    /\ UNCHANGED <<jar, default_params, extended, renewal_log, requests, outcome>>
    /\ UNCHANGED <<smVars, bgVars, thVars, monVars, held, last_call>>

InitSync ==
    /\ now = MaxTime
    /\ config \in {d \in CookieDicts : d["FpsExternalIdentity"] = "id1"}
    /\ current_cookies = config
    /\ last_refresh_time \in {None, 0}
    /\ background_thread = None
    /\ background_running = FALSE
    /\ background_interval = 300
    /\ cpc = [c \in Callers |-> "idle"]
    /\ result = NoResult
    /\ wpc = [w \in Workers |-> "unborn"]
    /\ jar = current_cookies
    /\ InitParams
    /\ InitDatabase

NextSync ==
    \/ \E i \in Intervals : StartBackground(i)
    \/ \E w \in Workers : WorkerLoop(w)
    \/ \E w \in Workers : \E resp \in RenewResponses : \E saved \in BOOLEAN :
          WorkerRenewalReturns(w, resp, saved)
    \/ \E w \in Workers : WorkerWakes(w)
    \/ UpdateSessionCookies
    \/ PostRequest
    \/ \E resp \in AvailResponses : PostReturns(resp)

SpecSync == InitSync /\ [][NextSync]_vars

\* C16: the cookies sent with an availability request are the manager's
\* current_cookies at the moment the request is sent, also when the
\* background thread has merged renewed cookies since the jar was filled.
C16_SentCookiesAreCurrent ==
    [][(fpc = "synced" /\ fpc' = "post1") => jar = current_cookies]_vars

\* ------------------------------ SessionManager: renewals and due checks
\* this step is the return of caller c from a renewal that ended with ok
RenewalReturned(c, ok) ==
    /\ InFlight(c)
    /\ cpc'[c] = "idle"
    /\ result' = [op |-> cpc[c], value |-> ReturnValue(cpc[c], ok)]

\* the responses refresh_cookies_proactively fails on: the request raised,
\* the status is not 200, or no cookie is set
FailingRenewResponses ==
    {resp \in RenewResponses :
        resp.kind = "exception" \/ resp.status_code # 200 \/ resp.set_cookie = <<>>}

\* C17: a refresh_cookies_proactively that fails (the request raises, the
\* status is not 200, or the response sets no cookie) returns False and
\* leaves current_cookies, last_refresh_time and config.json unchanged.
C17_FailedRenewalChangesNothing ==
    [][\A resp \in FailingRenewResponses : \A saved \in BOOLEAN :
          RenewalReturns(Foreground, resp, saved) =>
              /\ RenewalReturned(Foreground, FALSE)
              /\ UNCHANGED <<current_cookies, last_refresh_time, config>>]_vars

\* a renewal made after an earlier one had succeeded has failed
C17_Witness ==
    /\ result = [op |-> "refresh", value |-> FALSE]
    /\ cpc[Foreground] = "idle"
    /\ last_refresh_time # None
    /\ last_refresh_time < now

\* the merge drops no cookie, and the timestamp is the time of the renewal
MergedAndStamped ==
    /\ \A n \in CookieNames : current_cookies[n] # Absent => current_cookies'[n] # Absent
    /\ current_cookies' # EmptyDict
    /\ last_refresh_time' = now

\* C18: every refresh_cookies_proactively that returns True has merged the
\* new cookies, set last_refresh_time and written the cookies to
\* config.json: right after it the cookies of config.json are current_cookies.
C18_SuccessMergedStampedSaved ==
    [][RenewalReturned(Foreground, TRUE) =>
          /\ MergedAndStamped
          /\ config' = current_cookies']_vars

\* C18 as amended: every refresh_cookies_proactively that returns True has
\* merged the new cookies and set last_refresh_time; the cookies of
\* config.json are current_cookies when the write went through, and are
\* unchanged when it failed.
C18_SuccessMergedStampedSavedOrKept ==
    [][RenewalReturned(Foreground, TRUE) =>
          /\ MergedAndStamped
          /\ config' \in {current_cookies', config}]_vars

\* a renewal has succeeded and config.json has its cookies
C18_Witness ==
    /\ result = [op |-> "refresh", value |-> TRUE]
    /\ cpc[Foreground] = "idle"
    /\ last_refresh_time = now
    /\ config = current_cookies
    /\ current_cookies["LoginValid"] = "2025-06-20 00:40"
    /\ current_cookies["FpsExternalIdentity"] # Absent

\* LoginValid of cookies is at least the warning threshold after t
ExpiryFar(t, cookies) ==
    LET earliest_expiration == get_earliest_cookie_expiration(cookies) IN
    earliest_expiration # None /\ earliest_expiration - t >= ExpiryWarning

\* C20: right after a refresh_cookies_proactively that returned True,
\* should_refresh_cookies is False, provided the LoginValid cookie the
\* manager then holds expires at least the warning threshold later.
C20_NotDueAfterSuccess ==
    [][\A c \in Callers :
          (RenewalReturned(c, TRUE) /\ ExpiryFar(now', current_cookies')) =>
              ~ShouldRefresh(now', last_refresh_time', current_cookies')]_vars

\* a renewal has succeeded more than the interval after the start, and
\* renewal is not due
C20_Witness ==
    /\ result = [op |-> "refresh", value |-> TRUE]
    /\ now > refresh_interval
    /\ last_refresh_time = now
    /\ ExpiryFar(now, current_cookies)
    /\ ~should_refresh_cookies

\* should_refresh_cookies(), called by thread c
ShouldRefreshCall(c) ==
    /\ cpc[c] = "idle"
    /\ result' = [op |-> "should_refresh", value |-> should_refresh_cookies]
    /\ UNCHANGED <<cpc, smVars, bgVars>>
    /\ UNCHANGED clientVars

\* the manager at any minute, with any cookies, renewed last at any earlier
\* minute or never
InitDue ==
    /\ now \in 0..MaxTime
    /\ last_refresh_time \in {None} \cup 0..now
    /\ current_cookies \in CookieDicts
    /\ config = current_cookies
    /\ background_thread = None
    /\ background_running = FALSE
    /\ background_interval = 300
    /\ cpc = [c \in Callers |-> "idle"]
    /\ result = NoResult
    /\ wpc = [w \in Workers |-> "unborn"]
    /\ jar = EmptyDict
    /\ InitParams
    /\ InitDatabase

NextDue == \E c \in Callers : ShouldRefreshCall(c)

SpecDue == InitDue /\ [][NextDue]_vars

\* C19: should_refresh_cookies() is True if and only if more than the
\* refresh interval has passed since the last successful renewal, or a
\* LoginValid cookie that reads as a time is present and less than the
\* warning threshold is left to that time; it changes no state.
C19_DueIffIntervalOrExpiry ==
    [][result'.op = "should_refresh" =>
          /\ result'.value <=>
                \/ (last_refresh_time # None
                      /\ now - last_refresh_time > refresh_interval)
                \/ (current_cookies["LoginValid"] \in DOMAIN Strptime
                      /\ Strptime[current_cookies["LoginValid"]] - now < ExpiryWarning)
          /\ UNCHANGED <<smVars, bgVars, cpc, clientVars>>]_vars

\* the answer exactly the interval after the last renewal, with a
\* LoginValid that is not near: renewal is not due
C19_Witness ==
    /\ result = [op |-> "should_refresh", value |-> FALSE]
    /\ last_refresh_time # None
    /\ now - last_refresh_time = refresh_interval
    /\ current_cookies["LoginValid"] = "2025-06-20 00:40"

\* refresh_cookies_proactively succeeds on resp: the request went through,
\* the status is 200 and a cookie is set
GoodRenewResponse(resp) ==
    resp.kind = "response" /\ resp.status_code = 200 /\ resp.set_cookie # <<>>

\* C21: ensure_fresh_cookies returns True without a request when renewal is
\* not due; when renewal is due it sends one renewal request and returns
\* the outcome of that renewal.
C21_EnsureFreshRenewsIffDue ==
    [][/\ (cpc[Foreground] = "idle" /\ cpc'[Foreground] = "ensure")
            => should_refresh_cookies
       /\ (cpc[Foreground] = "idle" /\ cpc'[Foreground] = "idle"
             /\ result'.op = "ensure" /\ result' # result)
            => (~should_refresh_cookies /\ result'.value
                  /\ UNCHANGED <<smVars, bgVars>>)
       /\ EnsureCall(Foreground)
            => (should_refresh_cookies <=> cpc'[Foreground] = "ensure")
       /\ \A resp \in RenewResponses : \A saved \in BOOLEAN :
            (cpc[Foreground] = "ensure" /\ RenewalReturns(Foreground, resp, saved))
            => /\ cpc'[Foreground] = "idle"
               /\ result' = [op |-> "ensure", value |-> GoodRenewResponse(resp)]]_vars

\* ensure_fresh_cookies has returned the failure of its renewal
C21_Witness ==
    /\ result = [op |-> "ensure", value |-> FALSE]
    /\ cpc[Foreground] = "idle"
    /\ should_refresh_cookies

\* the texts of Texts in which a pattern of is_session_expired is found:
\* "Login required", the NullReferenceException payload, and the payloads
\* with status and, further on, the 500 of "500kr"
ExpectedExpired ==
    {<<"Login", "required">>,
     Text(JsonPayload(500, "NullReferenceException", <<>>)),
     Text(JsonPayload(200, "", <<Bundle(Occ1)>>)),
     Text(JsonPayload(200, "", <<Bundle(Occ2), Bundle(Occ1)>>))}

\* C22: is_session_expired(response_text): when renewal is due it sends one
\* renewal request and returns False if the renewal succeeded, True if it
\* failed, whatever the text; when renewal is not due it returns True if and
\* only if a text is given and one of the patterns is found in it, case
\* ignored, and sends nothing.
C22_SessionExpiredByDueOrMarker ==
    [][/\ \A text \in Texts \cup {NoText} :
            ExpiredCall(Foreground, text) =>
                IF should_refresh_cookies
                THEN cpc'[Foreground] = "expired" /\ UNCHANGED <<smVars, result>>
                ELSE /\ result' = [op |-> "expired", value |-> text \in ExpectedExpired]
                     /\ UNCHANGED <<cpc, smVars, bgVars>>
       /\ \A resp \in RenewResponses : \A saved \in BOOLEAN :
            (cpc[Foreground] = "expired" /\ RenewalReturns(Foreground, resp, saved))
            => /\ cpc'[Foreground] = "idle"
               /\ result' = [op |-> "expired", value |-> ~GoodRenewResponse(resp)]]_vars

\* is_session_expired has found a marker while renewal was not due
C22_Witness ==
    /\ result = [op |-> "expired", value |-> TRUE]
    /\ cpc[Foreground] = "idle"
    /\ ~should_refresh_cookies
    /\ last_refresh_time = None

\* --------------------- the background thread, started and stopped, for ever
\* the renewal endpoint's responses to the requests of the loop: a request
\* that raises, a 200 that sets nothing, and the 200s that set LoginValid
WorkerResponses ==
    {resp \in RenewResponses :
        /\ resp.status_code # 500
        /\ \A i \in 1..Len(resp.set_cookie) : resp.set_cookie[i].name = "LoginValid"}

\* The foreground starts and stops the background refresh and calls
\* ensure_fresh_cookies; the threads run _background_refresh_loop.
NextWorker ==
    \/ \E i \in Intervals \cup {BadInterval} : StartBackground(i)
    \/ StopBackground
    \/ JoinReturns
    \/ EnsureCall(Foreground)
    \/ \E resp \in WorkerResponses : \E saved \in BOOLEAN :
          RenewalReturns(Foreground, resp, saved)
    \/ \E w \in Workers : WorkerLoop(w)
    \/ \E w \in Workers : \E resp \in WorkerResponses : \E saved \in BOOLEAN :
          WorkerRenewalReturns(w, resp, saved)
    \/ \E w \in Workers : WorkerWakes(w)
    \/ \E w \in Workers : WorkerBackoffEnds(w)

SpecWorker == InitBackground /\ [][NextWorker]_vars

\* The same without the rejected interval and without the foreground's
\* renewals: the threads of _background_refresh_loop, started and stopped.
NextLoop ==
    \/ \E i \in Intervals : StartBackground(i)
    \/ StopBackground
    \/ JoinReturns
    \/ \E w \in Workers : WorkerLoop(w)
    \/ \E w \in Workers : \E resp \in WorkerResponses : \E saved \in BOOLEAN :
          WorkerRenewalReturns(w, resp, saved)
    \/ \E w \in Workers : WorkerWakes(w)

\* the responses of the renewal endpoint that renew LoginValid
RenewedResponses ==
    {resp \in RenewResponses :
        /\ RefreshSucceeds(resp)
        /\ NewCookies(resp)["LoginValid"] = "2025-06-20 00:40"}

\* A started thread runs (threading.Thread.start), time.sleep returns,
\* requests.post returns within timeout=30 and join within timeout=1. The
\* strong fairness is the hypothesis that the renewal endpoint answers with
\* renewed cookies to one of the requests that keep being sent to it.
FairLoop ==
    /\ WF_vars(JoinReturns)
    /\ \A w \in Workers :
          /\ WF_vars(WorkerLoop(w))
          /\ WF_vars(WorkerWakes(w))
          /\ WF_vars(\E resp \in WorkerResponses : \E saved \in BOOLEAN :
                        WorkerRenewalReturns(w, resp, saved))
          /\ SF_vars(\E resp \in RenewedResponses : \E saved \in BOOLEAN :
                        WorkerRenewalReturns(w, resp, saved))

SpecLoop == InitBackground /\ [][NextLoop]_vars /\ FairLoop

\* C23: a failed renewal leaves a due cookie set due; every later check that
\* finds it due (here an iteration of the background loop) sends a renewal
\* request again; and if the renewal endpoint eventually answers with
\* renewed cookies, the set, checked by the running background loop,
\* eventually is not due any more.
C23_FailedIsNotTerminal ==
    /\ [][/\ \A w \in Workers : \A resp \in WorkerResponses : \A saved \in BOOLEAN :
               (should_refresh_cookies /\ ~GoodRenewResponse(resp)
                  /\ WorkerRenewalReturns(w, resp, saved))
               => should_refresh_cookies'
          /\ \A w \in Workers :
               (should_refresh_cookies /\ background_running /\ WorkerLoop(w))
               => wpc'[w] = "post"]_vars
    /\ (should_refresh_cookies /\ background_running)
          ~> (~should_refresh_cookies \/ ~background_running)

\* the renewal of the background loop has failed (no renewal has succeeded
\* since the start, and the thread sleeps after a due check) and the set is
\* still due
C23_Witness ==
    /\ background_running
    /\ should_refresh_cookies
    /\ current_cookies = config
    /\ last_refresh_time = 0
    /\ wpc[background_thread] = "sleep"
    /\ background_interval = 60

\* C27: stop_background_refresh clears the flag and returns after the bounded
\* join, also when the thread is asleep; unless start_background_refresh
\* follows, the thread leaves its loop at its next wake-up, and a thread that
\* has left is never running again.
C27_StopEndsWorker ==
    /\ [][/\ StopBackground => ~background_running'
          /\ \A w \in Workers : wpc[w] = "exited" => wpc'[w] = "exited"
          /\ \A w \in Workers :
               (~background_running /\ wpc[w] = "loop" /\ wpc'[w] # "loop")
               => wpc'[w] = "exited"]_vars
    /\ (cpc[Foreground] = "join") ~> (cpc[Foreground] = "idle")
    /\ \A w \in Workers :
          (Alive(w) /\ ~background_running)
             ~> (wpc[w] = "exited" \/ background_running)

\* stop_background_refresh has returned while the thread sleeps
C27_Witness ==
    /\ ~background_running
    /\ cpc[Foreground] = "idle"
    /\ background_thread # None
    /\ wpc[background_thread] = "sleep"

\* C28: while the running flag is set, start_background_refresh changes
\* nothing: no thread is started, and the interval, the flag and the thread
\* handle stay as they are.
C28_StartWhileRunningIsNoOp ==
    [][/\ background_running =>
            \A w \in Workers : wpc[w] = "unborn" => wpc'[w] = "unborn"
       /\ \A i \in Intervals \cup {BadInterval} :
            (background_running /\ StartBackground(i)) => UNCHANGED bgVars]_vars

\* start_background_refresh has been called with another interval while the
\* flag was set
C28_Witness ==
    /\ result = [op |-> "start", value |-> FALSE]
    /\ background_running
    /\ background_interval = BadInterval
    /\ wpc[2] = "unborn"

\* C29: neither a failed renewal nor an exception raised inside an iteration
\* ends the background thread: it leaves its loop only at the while
\* condition, with the flag cleared; after an exception it sleeps the
\* backoff and is at the while condition again.
C29_WorkerSurvivesErrors ==
    [][\A w \in Workers :
          /\ (wpc[w] # "exited" /\ wpc'[w] = "exited")
                => (wpc[w] = "loop" /\ ~background_running)
          /\ (wpc[w] = "backoff" /\ wpc'[w] # "backoff") => wpc'[w] = "loop"
          /\ (wpc[w] \in {"loop", "post"} /\ background_running
                /\ background_interval < 0 /\ wpc'[w] \notin {wpc[w], "post"})
                => wpc'[w] = "backoff"]_vars

\* the thread is in the backoff after a failed renewal (none has succeeded
\* since the start) and the exception of its sleep
C29_Witness ==
    /\ background_running
    /\ background_interval = BadInterval
    /\ wpc[background_thread] = "backoff"
    /\ should_refresh_cookies
    /\ last_refresh_time = 0

\* ------------------------------- the manager's mapping and its callers
\* get_current_cookies returning self.current_cookies itself
get_current_cookies_live(cookies) ==
    [op |-> "get_current_cookies", ref |-> "manager", cookies |-> EmptyDict]

\* get_current_cookies: self.current_cookies.copy()
get_current_cookies(cookies) ==
    [op |-> "get_current_cookies", ref |-> "copy", cookies |-> cookies]

\* the pairs of the mapping the caller holds
HeldCookies == IF held.ref = "manager" THEN current_cookies ELSE held.cookies

\* a caller calls get_current_cookies
GetCurrentCookies(c) ==
    /\ cpc[c] = "idle"
    /\ held' = get_current_cookies(current_cookies)
    /\ UNCHANGED <<smVars, bgVars, thVars, apiVars, monVars, last_call>>

\* the caller writes held[n] = v, or deletes held[n] (v = Absent)
MutateHeld(n, v) ==
    /\ held.ref # "none"
    /\ HeldCookies[n] # v
    /\ IF held.ref = "manager"
       THEN /\ current_cookies' = [current_cookies EXCEPT ![n] = v]
            /\ UNCHANGED held
       ELSE /\ held' = [held EXCEPT !.cookies[n] = v]
            /\ UNCHANGED current_cookies
    /\ UNCHANGED <<now, last_refresh_time, config, bgVars, thVars, apiVars, monVars,
                   last_call>>

\* update_cookies replacing the cookies it holds
UpdateCookiesReplaces(c, new_cookies) ==
    /\ cpc[c] = "idle"
    /\ IF new_cookies # EmptyDict
       THEN /\ current_cookies' = new_cookies
            /\ last_refresh_time' = now
       ELSE UNCHANGED <<current_cookies, last_refresh_time>>
    /\ result' = [op |-> "update", value |-> new_cookies # EmptyDict]
    /\ UNCHANGED <<now, config, cpc, bgVars>>
    /\ UNCHANGED clientVars

\* update_cookies(new_cookies)
UpdateCookies(c, new_cookies) ==
    /\ cpc[c] = "idle"
    /\ IF new_cookies # EmptyDict
       THEN /\ current_cookies' = DictUpdate(current_cookies, new_cookies)
            /\ last_refresh_time' = now
       ELSE UNCHANGED <<current_cookies, last_refresh_time>>
    /\ result' = [op |-> "update", value |-> new_cookies # EmptyDict]
    /\ UNCHANGED <<now, config, cpc, bgVars>>
    /\ UNCHANGED clientVars

NextCookies ==
    \/ GetCurrentCookies(Foreground)
    \/ \E n \in CookieNames : \E v \in CookieValues(n) \cup {Absent} : MutateHeld(n, v)
    \/ \E new_cookies \in CookieDicts : UpdateCookies(Foreground, new_cookies)
    \/ RefreshCall(Foreground)
    \/ \E resp \in RenewResponses : \E saved \in BOOLEAN :
          RenewalReturns(Foreground, resp, saved)

SpecCookies == Init /\ [][NextCookies]_vars

\* C24: get_current_cookies returns a copy: whatever the caller writes to or
\* deletes from the mapping it was handed, the manager's cookies stay as they
\* are, and a later get_current_cookies returns the manager's cookies.
C24_CurrentCookiesIsACopy ==
    [][/\ \A n \in CookieNames : \A v \in CookieValues(n) \cup {Absent} :
            (held.op = "get_current_cookies" /\ MutateHeld(n, v))
            => (current_cookies' = current_cookies /\ HeldCookies' # HeldCookies)
       /\ GetCurrentCookies(Foreground) => HeldCookies' = current_cookies]_vars

\* the caller has changed the mapping it was handed (no merge has been made
\* since the construction, so the difference is the caller's)
C24_Witness ==
    /\ held.op = "get_current_cookies"
    /\ last_refresh_time = None
    /\ current_cookies = config
    /\ HeldCookies # current_cookies
    /\ HeldCookies["LoginValid"] = Absent
    /\ current_cookies["LoginValid"] # Absent

\* post is old with the pairs of new written over it
IsMerge(old, new, post) ==
    /\ \A n \in CookieNames : old[n] # Absent => post[n] # Absent
    /\ \A n \in CookieNames : new[n] # Absent => post[n] = new[n]
    /\ \A n \in CookieNames : post[n] # Absent => (old[n] # Absent \/ new[n] # Absent)
    /\ \A n \in CookieNames : new[n] = Absent => post[n] = old[n]

\* C25: every merge of cookies (a successful renewal, or update_cookies with
\* a non-empty mapping) leaves a set that has every name it had before and
\* every pair that was supplied, the supplied value winning on a name held
\* before, and no other name added or removed.
C25_MergeIsUpdate ==
    [][/\ \A new_cookies \in CookieDicts \ {EmptyDict} :
            UpdateCookies(Foreground, new_cookies)
            => IsMerge(current_cookies, new_cookies, current_cookies')
       /\ \A resp \in RenewResponses : \A saved \in BOOLEAN :
            (RenewalReturns(Foreground, resp, saved) /\ GoodRenewResponse(resp))
            => IsMerge(current_cookies, NewCookies(resp), current_cookies')]_vars

\* update_cookies has written a new LoginValid over the one held and kept
\* the identity that was not supplied
C25_Witness ==
    /\ result = [op |-> "update", value |-> TRUE]
    /\ config["LoginValid"] = "2025-06-20 00:18"
    /\ config["FpsExternalIdentity"] = "id1"
    /\ current_cookies["LoginValid"] = "2025-06-20 00:40"
    /\ current_cookies["FpsExternalIdentity"] = "id1"

\* ------------------------------------------------ the monitor's diff
\* C26: in each cycle of run, new_rides is the persisted set minus the
\* previous set and removed_rides the previous set minus the persisted set,
\* the persisted set being read after the cycle's store; the previous set is
\* the persisted set of the cycle before (before the first cycle: the set
\* read before the loop) and becomes the current one at the end of the
\* cycle; no other step of run, a cancellation included, changes the three.
C26_DiffAgainstPreviousCycle ==
    [][/\ (mpc = "off" /\ mpc' # "off")
            => last_available_rides' = get_rides_as_set(table, examination_type)
       /\ (mpc = "diff" /\ mpc' = "sleep")
            => LET currentSet == get_rides_as_set(table, examination_type) IN
                 /\ ~journal.open
                 /\ table' = table
                 /\ new_rides' = currentSet \ last_available_rides
                 /\ removed_rides' = last_available_rides \ currentSet
                 /\ last_available_rides' = currentSet
       /\ (mpc \notin {"off", "diff"} \/ mpc' = "ended")
            => UNCHANGED <<last_available_rides, new_rides, removed_rides>>]_vars

\* a cycle has found a ride added and a ride removed, after a store
C26_Witness ==
    /\ mpc = "sleep"
    /\ new_rides # {}
    /\ removed_rides # {}
    /\ new_rides \cap removed_rides = {}
    /\ last_available_rides = get_rides_as_set(table, examination_type)
    /\ available_rides_list # <<>>

\* ----------------------------------------------------- default_params
\* C30: the template of query parameters is never changed: after any
\* calls of get_available_dates it equals its value at construction, its
\* locationId unset.
C30_TemplateUnchanged ==
    default_params = [locationId |-> None, languageId |-> None]

\* ------------------------------------- get_available_dates, continued
\* C31: when the ensure_fresh_cookies at the start of get_available_dates
\* fails, the call does not end there: it sends the availability request,
\* with the cookies the manager holds.
C31_EnsureFailureStillSends ==
    [][\A resp \in RenewResponses : \A saved \in BOOLEAN :
          (fpc = "ensure" /\ EnsureReturns(resp, saved) /\ ~GoodRenewResponse(resp))
          => /\ fpc' = "post1"
             /\ requests' = 1
             /\ outcome' = NoOutcome
             /\ current_cookies' = current_cookies
             /\ jar' = current_cookies]_vars

\* the availability request is in flight after a failed ensure_fresh_cookies
C31_Witness ==
    /\ fpc = "post1"
    /\ renewal_log = <<FALSE>>
    /\ requests = 1
    /\ jar = current_cookies
    /\ should_refresh_cookies

\* ------------------------------------- RideDatabase, called directly
\* A ride to store: dates of the test, and a ride on the day of the first
\* at an earlier hour.
Ride(d, t, l) ==
    [name |-> "Kunskapsprov B", date |-> d, time |-> t, location |-> l, cost |-> "325kr"]

\* the lists store_rides is called with
RideLists ==
    {<<>>,
     <<Ride("2025-01-15", "10:00", "Stockholm")>>,
     <<Ride("2025-01-20", "09:15", "Malmo")>>,
     <<Ride("2025-01-15", "10:00", "Stockholm"), Ride("2025-01-15", "09:15", "Stockholm")>>,
     <<Ride("2025-01-20", "09:15", "Malmo"), Ride("2025-01-15", "10:00", "Stockholm")>>}

ExaminationTypes == {examination_type, OtherType}

\* the current_date arguments
CurrentDates == {"2025-01-01", "2025-01-15", "2025-01-16", "2025-01-21"}

\* SQLite compares TEXT with memcmp: the place of each date and each time
\* used, in that order
TextRank ==
    ("2025-01-01" :> 1) @@ ("2025-01-15" :> 2) @@ ("2025-01-16" :> 3)
    @@ ("2025-01-20" :> 4) @@ ("2025-01-21" :> 5) @@ ("2025-03-01" :> 6)
    @@ ("2025-03-02" :> 7) @@ ("09:00" :> 1) @@ ("09:15" :> 2) @@ ("10:00" :> 3)

\* SELECT name, date, time, location, cost, created_at
Columns(row) ==
    [name |-> row.name, date |-> row.date, time |-> row.time,
     location |-> row.location, cost |-> row.cost, created_at |-> row.created_at]

\* ORDER BY date ASC, time ASC: a comes no later than b
DateTimeBefore(a, b) ==
    \/ TextRank[a.date] < TextRank[b.date]
    \/ (a.date = b.date /\ TextRank[a.time] <= TextRank[b.time])

\* the query of get_next_available_ride ordered as that of get_all_rides
get_next_available_ride_desc(tbl, ty, current_date) ==
    LET found == {i \in DOMAIN tbl :
                    /\ tbl[i].examination_type = ty
                    /\ TextRank[tbl[i].date] >= TextRank[current_date]} IN
    IF found = {} THEN {<<>>}
    ELSE {<<Columns(tbl[i])>> :
            i \in {j \in found : \A k \in found : DateTimeBefore(tbl[k], tbl[j])}}

\* get_next_available_ride: the values fetchone can give (<<>> is None);
\* rows that tie on date and time come in an order SQL leaves open
get_next_available_ride(tbl, ty, current_date) ==
    LET found == {i \in DOMAIN tbl :
                    /\ tbl[i].examination_type = ty
                    /\ TextRank[tbl[i].date] >= TextRank[current_date]} IN
    IF found = {} THEN {<<>>}
    ELSE {<<Columns(tbl[i])>> :
            i \in {j \in found : \A k \in found : DateTimeBefore(tbl[j], tbl[k])}}

\* store_rides when every statement succeeds
store_rides(tbl, rides, ty, t) ==
    DeleteRides(tbl, ty) \o [i \in 1..Len(rides) |-> Row(rides[i], ty, t)]

\* get_all_rides: the rows of the type, in rowid order (the ORDER BY is
\* left out: the result is read as a collection)
get_all_rides(tbl, ty) ==
    LET rows == SelectSeq(tbl, LAMBDA row : row.examination_type = ty) IN
    [i \in 1..Len(rows) |-> Columns(rows[i])]

\* db.store_rides(rides, examination_type) returns
StoreRides(rides, ty) ==
    /\ mpc = "off"
    /\ table' = store_rides(table, rides, ty, now)
    /\ last_call' = [op |-> "store_rides", ty |-> ty, rides |-> rides,
                     before |-> table, ok |-> TRUE]
    /\ UNCHANGED <<smVars, bgVars, thVars, apiVars, held>>
    /\ UNCHANGED <<mpc, loc, attempt, available_rides_list, last_available_rides,
                   new_rides, removed_rides, raised, journal, ins,
                   previous_rides_list>>

\* db.store_rides raises: the with block has rolled back
StoreRidesFails(rides, ty) ==
    /\ mpc = "off"
    /\ last_call' = [op |-> "store_rides", ty |-> ty, rides |-> rides,
                     before |-> table, ok |-> FALSE]
    /\ UNCHANGED <<smVars, bgVars, thVars, apiVars, held, monVars>>

\* db.get_all_rides(examination_type)
GetAllRides(ty) ==
    /\ mpc = "off"
    /\ last_call' = [op |-> "get_all_rides", ty |-> ty,
                     value |-> get_all_rides(table, ty)]
    /\ UNCHANGED <<smVars, bgVars, thVars, apiVars, held, monVars>>

\* db.get_next_available_ride(examination_type, current_date)
GetNextAvailableRide(ty, current_date) ==
    /\ mpc = "off"
    /\ \E v \in get_next_available_ride(table, ty, current_date) :
          last_call' = [op |-> "get_next_available_ride", ty |-> ty,
                        current_date |-> current_date, value |-> v]
    /\ UNCHANGED <<smVars, bgVars, thVars, apiVars, held, monVars>>

\* a database that holds nothing, or a ride of each type
InitRideDatabase ==
    /\ InitManager
    /\ config = EmptyDict
    /\ cpc = [c \in Callers |-> "idle"]
    /\ result = NoResult
    /\ wpc = [w \in Workers |-> "unborn"]
    /\ jar = EmptyDict
    /\ InitParams
    /\ mpc = "off"
    /\ loc = 1
    /\ attempt = 0
    /\ available_rides_list = <<>>
    /\ last_available_rides = {}
    /\ new_rides = {}
    /\ removed_rides = {}
    /\ raised = "none"
    /\ table \in {<<>>,
                  <<Row(Ride("2025-01-15", "10:00", "Stockholm"), examination_type, 0),
                    Row(Ride("2025-01-20", "09:15", "Malmo"), OtherType, 0)>>}
    /\ journal = NoJournal
    /\ ins = 1
    /\ previous_rides_list = <<>>

NextRideDatabase ==
    \/ \E rides \in RideLists : \E ty \in ExaminationTypes : StoreRides(rides, ty)
    \/ \E rides \in RideLists : \E ty \in ExaminationTypes : StoreRidesFails(rides, ty)
    \/ \E ty \in ExaminationTypes : GetAllRides(ty)
    \/ \E ty \in ExaminationTypes : \E d \in CurrentDates : GetNextAvailableRide(ty, d)
    \/ Tick

SpecRideDatabase == InitRideDatabase /\ [][NextRideDatabase]_vars

\* the rows get_next_available_ride may not pass over: those of the type,
\* dated current_date or later
Upcoming(tbl, ty, current_date) ==
    {i \in DOMAIN tbl :
        /\ tbl[i].examination_type = ty
        /\ TextRank[tbl[i].date] >= TextRank[current_date]}

\* C32: get_next_available_ride(examination_type, current_date) returns a
\* row of that type dated current_date or later such that no such row has a
\* smaller (date, time), and None when there is no such row: never a row of
\* another type, never one dated before current_date.
C32_NextUpcomingIsEarliest ==
    last_call.op = "get_next_available_ride" =>
        LET upcoming == Upcoming(table, last_call.ty, last_call.current_date) IN
        IF upcoming = {} THEN last_call.value = <<>>
        ELSE /\ Len(last_call.value) = 1
             /\ \E i \in upcoming :
                  /\ Columns(table[i]) = last_call.value[1]
                  /\ \A k \in upcoming :
                       \/ TextRank[table[i].date] < TextRank[table[k].date]
                       \/ /\ table[i].date = table[k].date
                          /\ TextRank[table[i].time] <= TextRank[table[k].time]

\* the ride of 09:15 on 2025-01-15 is returned though the ride of 10:00 was
\* stored first, with a ride of the other type in the table
C32_Witness ==
    /\ last_call.op = "get_next_available_ride"
    /\ last_call.ty = examination_type
    /\ last_call.current_date = "2025-01-15"
    /\ last_call.value # <<>>
    /\ last_call.value[1].time = "09:15"
    /\ Len(table) = 3
    /\ table[1].examination_type = OtherType
    /\ table[2].time = "10:00"

\* the five fields of a ride
Fields(row) ==
    [name |-> row.name, date |-> row.date, time |-> row.time,
     location |-> row.location, cost |-> row.cost]

Pair(n, v) == [eq |-> TRUE, n |-> n, v |-> v]
Word(w) == [eq |-> FALSE, n |-> w, v |-> ""]
Header(name, parts) == [name |-> name, parts |-> parts]

RequestTexts ==
    {<<Header("Accept", <<Word("application/json")>>),
       Header("Cookie", <<Pair("A", "1"), Pair("B", "2")>>),
       Header("Host", <<Word("fp.trafikverket.se")>>)>>,
     <<Header("Accept", <<Word("application/json")>>),
       Header("Host", <<Word("fp.trafikverket.se")>>)>>,
     <<Header("cookie", <<Pair("A", "1"), Pair("A", "2"), Word("B")>>)>>,
     <<Header("Cookie", <<Word("garbage")>>),
       Header("Host", <<Word("fp.trafikverket.se")>>)>>,
     <<Header("Host", <<Word("fp.trafikverket.se")>>),
       Header("Cookie", <<>>)>>,
     <<Header("Cookie", <<>>),
       Header("Content-Type", <<Word("application/json"), Pair("charset", "UTF-8")>>),
       Header("Host", <<Word("fp.trafikverket.se")>>)>>,
     <<Header("X-Device-Cookie", <<Pair("Z", "9")>>),
       Header("Cookie", <<Pair("A", "1")>>)>>,
     <<Header("Server", <<Word("Microsoft-IIS/10.0")>>),
       Header("Set-Cookie", <<Pair("LoginValid", "v"), Pair("path", "/"), Word("HttpOnly")>>)>>}

\* re.search(r'Cookie:', ..., re.IGNORECASE) is not anchored: it is found in
\* every line whose name ends in "cookie", whatever the case
EndsWithCookie == {"Cookie", "cookie", "X-Device-Cookie", "Set-Cookie"}

\* cookies = {}
EmptyMap == [n \in {} |-> ""]

\* "for cookie in cookie_string.split(';')": a later pair replaces an
\* earlier one of the same name
RECURSIVE ParsePairs(_)
ParsePairs(parts) ==
    IF parts = <<>> THEN EmptyMap
    ELSE LET last == parts[Len(parts)]
             rest == ParsePairs(SubSeq(parts, 1, Len(parts) - 1)) IN
         IF last.eq THEN (last.n :> last.v) @@ rest ELSE rest

\* the parts of a whole line taken as a cookie string: the name of the
\* line and its colon stay in front of the first part
Spill(line) ==
    IF line.parts = <<>> THEN <<Word(line.name \o ":")>>
    ELSE <<[line.parts[1] EXCEPT !.n = line.name \o ": " \o line.parts[1].n]>>
         \o SubSeq(line.parts, 2, Len(line.parts))

\* extract_cookies_from_request: the leftmost match of
\* r'Cookie:\s*(.+?)(?:\r?\n|$)'.  \s* also passes a line end, so after an
\* empty value the group is the next line; an empty value on the last line
\* does not match.
extract_cookies_from_request(request_text) ==
    LET matches == {i \in DOMAIN request_text :
                      /\ request_text[i].name \in EndsWithCookie
                      /\ (request_text[i].parts # <<>> \/ i < Len(request_text))} IN
    IF matches = {} THEN EmptyMap
    ELSE LET i == CHOOSE j \in matches : \A k \in matches : j <= k IN
         ParsePairs(IF request_text[i].parts # <<>> THEN request_text[i].parts
                    ELSE Spill(request_text[i + 1]))

\* session_manager.extract_cookies_from_request(request_text)
ExtractCookiesFromRequest(request_text) ==
    /\ last_call' = [op |-> "extract_cookies_from_request", text |-> request_text,
                     value |-> extract_cookies_from_request(request_text)]
    /\ UNCHANGED <<smVars, bgVars, thVars, apiVars, held, monVars>>

NextExtract ==
    \/ \E request_text \in RequestTexts : ExtractCookiesFromRequest(request_text)
    \/ Tick

SpecExtract == Init /\ [][NextExtract]_vars

\* C34: extract_cookies_from_request returns the name=value pairs of the
\* Cookie header line of the text, and the empty dictionary when the text
\* has no Cookie header or the header has no pair.
C34_ExtractsCookieHeaderPairs ==
    last_call.op = "extract_cookies_from_request" =>
        LET text == last_call.text
            cookie_lines == {i \in DOMAIN text : text[i].name \in {"Cookie", "cookie"}} IN
        IF cookie_lines = {} THEN last_call.value = EmptyMap
        ELSE LET parts == text[CHOOSE j \in cookie_lines : \A k \in cookie_lines : j <= k].parts
                 pairs == {i \in DOMAIN parts : parts[i].eq} IN
             /\ DOMAIN last_call.value = {parts[i].n : i \in pairs}
             /\ \A i \in pairs :
                  (\A k \in pairs : parts[k].n = parts[i].n => k <= i)
                  => last_call.value[parts[i].n] = parts[i].v

\* ------------------------------------------ the cycle of run, continued
\* C35: in a cycle a location gets at most MAX_ATTEMPTS calls of
\* get_available_dates and at most one more: a SessionExpiredError is
\* followed by one manual renewal and, if it succeeded, by one more call,
\* after which the location is left for the cycle; so, the network calls
\* returning, the cycle gets to the store and the diff: no outcome of a
\* call on a location ends run.
C35_CycleReachesStore ==
    [][/\ attempt < MAX_ATTEMPTS
       /\ (mpc = "fetch" /\ mpc' = "fetch" /\ loc' = loc /\ attempt' # attempt)
            => attempt' = attempt + 1
       /\ (mpc = "manual" /\ mpc' # "manual" /\ raised' = "none")
            => (mpc' = "retry" \/ loc' = loc + 1 \/ mpc' = "store")
       /\ (mpc = "retry" /\ mpc' # "retry" /\ raised' = "none")
            => (loc' = loc + 1 \/ mpc' = "store")
       /\ (mpc \in {"fetch", "manual", "retry"} /\ mpc' = "ended")
            => raised' = "KeyboardInterrupt"]_vars

\* C36: in a cycle the locations are polled in the order of
\* valid_location_ids, the attempts on one location are over before the
\* next is polled, and the store and the diff come after a call on the last
\* location.
C36_LocationsInListOrder ==
    [][/\ loc' # loc =>
            \/ (loc' = loc + 1 /\ mpc \in {"fetch", "manual", "retry"}
                  /\ mpc' = "fetch" /\ attempt' = 0)
            \/ (loc' = 1 /\ mpc \in {"off", "sleep"})
       /\ (mpc \in {"off", "sleep"} /\ mpc' = "fetch") => loc' = 1
       /\ (mpc # "store" /\ mpc' = "store")
            => (mpc \in {"fetch", "manual", "retry"} /\ loc = Len(valid_location_ids))
       /\ mpc \in {"store", "insert", "diff"} => loc = Len(valid_location_ids)
       /\ mpc' = "diff" => mpc \in {"store", "insert", "diff"}]_vars

\* the store of a cycle in which each of the two locations gave a ride
C36_Witness ==
    /\ mpc = "insert"
    /\ loc = Len(valid_location_ids)
    /\ Len(available_rides_list) = 2
    /\ available_rides_list[1] # available_rides_list[2]

\* ------------------------------- get_available_dates: no loop
\* the requests of get_available_dates in the order of its text
FetchOrder ==
    ("ensure" :> 1) @@ ("post1" :> 2) @@ ("h1_expired" :> 3) @@ ("h1_refresh" :> 4)
    @@ ("post2" :> 5) @@ ("h2_expired" :> 6) @@ ("h2_refresh" :> 7) @@ ("idle" :> 8)

\* C37: a call of get_available_dates has no loop: whatever the responses
\* and the outcomes of the renewals, it sends at most two availability
\* requests and at most five renewal requests, each request that returns
\* takes it further down its text, and it ends by returning a list or by
\* raising.
C37_FetchIsBounded ==
    [][/\ requests' <= 2
       /\ Len(renewal_log') <= 5
       /\ (fpc # "idle" /\ fpc' # fpc) => FetchOrder[fpc'] > FetchOrder[fpc]
       /\ (fpc # "idle" /\ fpc' = "idle")
            => outcome'.kind \in {"return", "HTTPStatus", "SessionExpiredError",
                                  "RequestException"}]_vars

\* a call has ended after two availability requests and five renewals
C37_Witness ==
    /\ fpc = "idle"
    /\ requests = 2
    /\ Len(renewal_log) = 5
    /\ outcome.kind # "none"

\* ------------------------------- get_session_info and its caller
\* get_session_info: the entry 'current_cookies': self.current_cookies of
\* the dictionary it returns
get_session_info(cookies) ==
    [op |-> "get_session_info", ref |-> "manager", cookies |-> EmptyDict]

\* a caller calls get_session_info (TrafikverketAPI.get_session_info passes
\* the manager's dictionary on) and keeps info['current_cookies']
GetSessionInfo(c) ==
    /\ cpc[c] = "idle"
    /\ held' = get_session_info(current_cookies)
    /\ UNCHANGED <<smVars, bgVars, thVars, apiVars, monVars, last_call>>

NextSessionInfo ==
    \/ GetSessionInfo(Foreground)
    \/ GetCurrentCookies(Foreground)
    \/ \E n \in CookieNames : \E v \in CookieValues(n) \cup {Absent} : MutateHeld(n, v)
    \/ \E new_cookies \in CookieDicts : UpdateCookies(Foreground, new_cookies)

SpecSessionInfo == Init /\ [][NextSessionInfo]_vars

\* C38: get_session_info does not hand out the manager's own mapping:
\* whatever the caller writes to or deletes from the mapping found in the
\* result, the manager's cookies stay as they are, and so does what a later
\* get_current_cookies returns.
C38_SessionInfoIsACopy ==
    [][\A n \in CookieNames : \A v \in CookieValues(n) \cup {Absent} :
          (held.op = "get_session_info" /\ MutateHeld(n, v))
          => (/\ current_cookies' = current_cookies
              /\ get_current_cookies(current_cookies').cookies
                   = get_current_cookies(current_cookies).cookies)]_vars

\* ------------------------------- no renewal yet: only the expiry counts
\* C39: while last_refresh_time is None, the interval does not make a
\* renewal due: should_refresh_cookies() is True only for a LoginValid
\* that is present, reads as a time and is less than the warning threshold
\* away; with LoginValid absent or unreadable ensure_fresh_cookies returns
\* True without a renewal request and the background thread goes on
\* (to its sleep, or out) without one.
C39_NeverRenewedOnlyExpiryMakesDue ==
    [][last_refresh_time = None =>
          /\ should_refresh_cookies
               <=> (/\ current_cookies["LoginValid"] \in DOMAIN Strptime
                    /\ Strptime[current_cookies["LoginValid"]] - now < ExpiryWarning)
          /\ current_cookies["LoginValid"] \notin DOMAIN Strptime
               => /\ EnsureCall(Foreground)
                       => (/\ cpc'[Foreground] = "idle"
                           /\ result' = [op |-> "ensure", value |-> TRUE])
                  /\ \A w \in Workers :
                       WorkerLoop(w) => wpc'[w] # "post"]_vars

\* more than the interval after the construction, with a LoginValid that
\* does not read as a time and no renewal made: ensure_fresh_cookies has
\* returned True and the background thread sleeps
C39_Witness ==
    /\ last_refresh_time = None
    /\ now > refresh_interval
    /\ current_cookies["LoginValid"] = "tomorrow"
    /\ result = [op |-> "ensure", value |-> TRUE]
    /\ background_running
    /\ background_interval > 0
    /\ wpc[background_thread] = "sleep"

\* ------------------------------- a renewal whose save fails
\* C40: a failure to write the cookies to config.json neither fails nor
\* undoes a renewal: refresh_cookies_proactively still returns True, the
\* manager holds the merged cookies, last_refresh_time is the time of the
\* renewal, and config.json holds what it held.
C40_SaveFailureKeepsRenewal ==
    [][\A resp \in RenewResponses :
          (/\ cpc[Foreground] = "refresh"
           /\ GoodRenewResponse(resp)
           /\ RenewalReturns(Foreground, resp, FALSE))
          => /\ result' = [op |-> "refresh", value |-> TRUE]
             /\ IsMerge(current_cookies, NewCookies(resp), current_cookies')
             /\ last_refresh_time' = now
             /\ config' = config]_vars

\* a renewal has returned True, the manager holds the new LoginValid and
\* config.json the old one
C40_Witness ==
    /\ result = [op |-> "refresh", value |-> TRUE]
    /\ cpc[Foreground] = "idle"
    /\ last_refresh_time = now
    /\ current_cookies["LoginValid"] = "2025-06-20 00:40"
    /\ config["LoginValid"] = "2025-06-20 00:18"

====
